---------------------------- MODULE Spec2Model ----------------------------
(***************************************************************************)
(* A model of the item editor of basalt-vscode: the host side              *)
(* (src/src/item-editor.ts: the version asset manager, the resource        *)
(* resolver and the message handlers of resolveCustomEditor) and the       *)
(* message listener of the rendering side (src/unnamed/part_003, App).     *)
(*                                                                         *)
(* Strings are sequences of tokens (<<"minecraft", ":", "apple">> is       *)
(* "minecraft:apple"), so that substring, indexOf and concatenation are    *)
(* computed as the code computes them.  JSON values are tagged records.    *)
(***************************************************************************)
EXTENDS Integers, Sequences, FiniteSets, TLC

VARIABLES
  docItem,             \* ItemEditorDocument.item (Null or an item)
  docHash,             \* ItemEditorDocument.hash (Null or a hash)
  runningUnpackTasks,  \* the live-task table: version -> task id, 0 when absent
  tasks,               \* the unsettled unpackVersion calls, by task id
  settled,             \* the unpack task that settled in the last step
  disk,                \* per installed version, the parts of its bundle on disk
  handlers,            \* the running onDidReceiveMessage calls of the host
  hostIn,              \* the message handed to the host's listener in the last step
  posted,              \* the messages webview.postMessage got in the last step
  editedItem,          \* App state: editedItem
  minecraftVersions,   \* App state: minecraftVersions
  itemTextures,        \* App state: itemTextures (sequence of <<key, texture>>)
  resources,           \* App state: resources (sequence of <<key, texture>>)
  itemComponents,      \* App state: itemComponents
  viewIn,              \* the message handed to the App's listener in the last step
  viewPosted,          \* the messages vsc.postMessage got in the last step
  file,                \* the text saveCustomDocumentAs wrote last (NoFile before)
  _editedItem,         \* preview context: _editedItem (Null or an item)
  _textures,           \* preview context: _textures (sequence of <<key, texture>>)
  _resources,          \* preview context: _resources (sequence of <<key, texture>>)
  _fonts,              \* preview context: _fonts (Null or the loaded fonts)
  builtTooltip,        \* preview context: builtTooltip
  uniforms,            \* previewData.uniforms: hasTexture, isEnchanted
  uItemSampler,        \* the texture bound to uItemSampler (EMPTY or a loaded one)
  uGlintSampler,       \* the texture bound to uGlintSampler
  loads,               \* the suspended tryLoad... calls of the preview context
  stage,               \* the tooltip containers that are children of app.stage
  destroyed,           \* app.destroy() has been called (dispose)
  mounted,             \* itemPreview.current of ItemPreview is set
  didChange,           \* the document's change event fired in the last step
  channel,             \* the messages under way between the two sides
  arg,                 \* the input a function under check is applied to
  ret                  \* its result (NoResult before the call)

hostVars == <<docItem, docHash, runningUnpackTasks, tasks, disk, handlers>>
hostOut == <<hostIn, posted, settled, didChange>>
viewVars == <<editedItem, minecraftVersions, itemTextures, resources, itemComponents>>
previewVars == <<_editedItem, _textures, _resources, _fonts, builtTooltip, uniforms,
                 uItemSampler, uGlintSampler, loads, stage, destroyed>>
fnVars == <<arg, ret>>
vars == <<docItem, docHash, runningUnpackTasks, tasks, disk, handlers, hostIn,
          posted, settled, editedItem, minecraftVersions, itemTextures, resources,
          itemComponents, viewIn, viewPosted, file, _editedItem, _textures,
          _resources, _fonts, builtTooltip, uniforms, uItemSampler, uGlintSampler,
          loads, stage, destroyed, mounted, didChange, channel, arg, ret>>

-----------------------------------------------------------------------------
(* Bounds of the model. *)

\* The number of host message handlers that may be suspended at once.
MaxHandlers == 2
\* The number of unpackVersion calls that may be unsettled at once.
MaxTasks == 2

-----------------------------------------------------------------------------
(* Strings. *)

\* String.prototype.indexOf for a one-token needle: 0-based, -1 when absent.
IndexOf(s, tok) ==
  IF \E i \in 1..Len(s) : s[i] = tok
    THEN (CHOOSE i \in 1..Len(s) : s[i] = tok /\ \A j \in 1..(i - 1) : s[j] # tok) - 1
    ELSE 0 - 1

\* String.prototype.substring(from).
Substring(s, from) == SubSeq(s, from + 1, Len(s))

\* path.join of two parts.
PathJoin(a, b) == a \o <<"/">> \o b

Null == [null |-> TRUE]

\* PIXI.Texture.EMPTY.source
EMPTY == [empty |-> TRUE]

\* No function is under check; no call has returned.
NoCall == [none |-> TRUE]
NoResult == [none |-> TRUE]

\* The webview channel: the messages one side posted that the listener of the
\* other has not been handed yet, oldest first.  Where one side is run on
\* its own, with messages drawn from a set, the channel is closed.
Closed == [open |-> FALSE, toHost |-> << >>, toView |-> << >>]
Connected(toHost) == [open |-> TRUE, toHost |-> toHost, toView |-> << >>]
\* A closed channel stays as it is; what a step does to an open one is said
\* where the step is taken from it.
ClosedChannelStays == IF channel.open THEN TRUE ELSE UNCHANGED channel

\* No document has been saved yet.
NoFile == [none |-> TRUE]

\* A call that returned x; a call that threw an error of a kind.
Returned(x) == [value |-> x]
Thrown(kind) == [error |-> kind]

-----------------------------------------------------------------------------
(* The game installation: .minecraft/versions and the version archives. *)

V1 == <<"1.21">>
V2 == <<"1.20">>
VX == <<"0.0">>

\* getMinecraftVersions: the versions whose folder holds <version>.jar.
InstalledVersions == {V1, V2}

\* The result of getMinecraftVersions, sorted.
VersionList == <<V2, V1>>

\* The item sprites of an archive (assets/minecraft/textures/item/<name>.png).
JarItemSprites == {<<"apple">>, <<"barrier">>}

\* The block textures of an archive (assets/minecraft/textures/block/<name>.png).
JarBlockTextures == {<<"stone">>, <<"log">>, <<"log_top">>}

\* The block models of an archive (assets/minecraft/models/block/<name>.json):
\* the "textures" object of each, as its entries in declaration order.
JarBlockModelNames == {<<"stone">>, <<"log">>, <<"barrier">>}

JarBlockModel(name) ==
  CASE name = <<"stone">> -> << <<"all", <<"minecraft", ":", "block", "/", "stone">> >> >>
    [] name = <<"log">> -> << <<"end", <<"block", "/", "log_top">> >>,
                              <<"side", <<"block", "/", "log">> >> >>
    [] name = <<"barrier">> -> << <<"particle", <<"block", "/", "stone">> >> >>
    [] OTHER -> << >>

\* Other files of an archive under textures/ and font/ (relative to the bundle).
JarGlintTexture == <<"textures", "/", "misc", "/", "enchanted_glint_item", ".png">>
JarAsciiPage == <<"textures", "/", "font", "/", "ascii", ".png">>
JarFontManifest == <<"font", "/", "default", ".json">>

\* The registry report the data generator writes for a version: the keys of
\* minecraft:data_component_type.
ComponentNames(v) ==
  IF v = V1 THEN << <<"minecraft:custom_name">>, <<"minecraft:enchantments">> >>
            ELSE << <<"minecraft:custom_name">> >>

RegistriesPath == <<"datagen", "/", "generated", "/", "reports", "/", "registries", ".json">>

ItemSpritePath(name) == <<"textures", "/", "item", "/">> \o name \o <<".png">>
BlockTexturePath(name) == <<"textures", "/", "block", "/">> \o name \o <<".png">>
BlockModelPath(name) == <<"models", "/", "block", "/">> \o name \o <<".json">>

\* The files unpackVersion and the data generator put into a bundle, by the
\* part of the bundle (its first path segment) they belong to.
BundleFiles ==
  {ItemSpritePath(n) : n \in JarItemSprites}
    \cup {BlockTexturePath(n) : n \in JarBlockTextures}
    \cup {BlockModelPath(n) : n \in JarBlockModelNames}
    \cup {JarGlintTexture, JarAsciiPage, JarFontManifest, RegistriesPath}

\* The content of a bundle file, base64-encoded: one value per version and file.
FileContent(v, p) == <<"base64(">> \o v \o <<"/">> \o p \o <<")">>

-----------------------------------------------------------------------------
(* JSON values, as the webview channel carries them. *)

JStr(s) == [t |-> "str", s |-> s]
JNum(n) == [t |-> "num", n |-> n]
JNull == [t |-> "null"]
\* An object: its entries <<key, value>> in insertion order.
JObj(kv) == [t |-> "obj", kv |-> kv]
JArr(a) == [t |-> "arr", a |-> a]

\* The value of hostIn and viewIn after a step in which no message came in.
NoInput == [t |-> "none"]

Has(j, k) == \E i \in 1..Len(j.kv) : j.kv[i][1] = k
Get(j, k) == j.kv[CHOOSE i \in 1..Len(j.kv) : j.kv[i][1] = k][2]

IsStr(j) == j.t = "str"
IsNum(j) == j.t = "num"
IsObj(j) == j.t = "obj"
HasStr(j, k) == Has(j, k) /\ IsStr(Get(j, k))
IsLiteral(j, k, lit) == HasStr(j, k) /\ Get(j, k).s = lit

\* z.array(z.string())
IsStrArray(j) == j.t = "arr" /\ \A i \in 1..Len(j.a) : IsStr(j.a[i])

\* z.record(z.string(), z.string())
IsStrRecord(j) == IsObj(j) /\ \A i \in 1..Len(j.kv) : IsStr(j.kv[i][2])

\* Item.safeParse(...).success
IsItem(j) ==
  /\ IsObj(j)
  /\ HasStr(j, "minecraftVersion")
  /\ HasStr(j, "id")
  /\ Has(j, "count") /\ IsNum(Get(j, "count"))
  /\ Has(j, "components") /\ IsStrRecord(Get(j, "components"))

\* The value Item.parse yields: the four declared keys, others stripped.
ParseItem(j) ==
  [minecraftVersion |-> Get(j, "minecraftVersion").s,
   id |-> Get(j, "id").s,
   count |-> Get(j, "count").n,
   components |-> [i \in 1..Len(Get(j, "components").kv) |->
                     <<Get(j, "components").kv[i][1], Get(j, "components").kv[i][2].s>>]]

\* JSON of an item (the object literal a message carries).
ItemJson(it) ==
  JObj(<< <<"minecraftVersion", JStr(it.minecraftVersion)>>,
          <<"id", JStr(it.id)>>,
          <<"count", JNum(it.count)>>,
          <<"components", JObj([i \in 1..Len(it.components) |->
                                 <<it.components[i][1], JStr(it.components[i][2])>>])>> >>)

IsNullableItem(j) == j.t = "null" \/ IsItem(j)
ParseNullableItem(j) == IF j.t = "null" THEN Null ELSE ParseItem(j)

\* The message shapes.
IsGetItemTextureMessage(j) ==
  IsObj(j) /\ IsLiteral(j, "type", <<"get-item-texture">>)
    /\ Has(j, "item") /\ IsItem(Get(j, "item"))
IsUpdateItemMessage(j) ==
  IsObj(j) /\ IsLiteral(j, "type", <<"update-item">>)
    /\ Has(j, "item") /\ IsNullableItem(Get(j, "item"))
IsUpdateMinecraftVersionsMessage(j) ==
  IsObj(j) /\ IsLiteral(j, "type", <<"update-versions">>)
    /\ Has(j, "versions") /\ IsStrArray(Get(j, "versions"))
IsReadyMessage(j) == IsObj(j) /\ IsLiteral(j, "type", <<"ready">>)
IsItemTextureResponseMessage(j) ==
  IsObj(j) /\ IsLiteral(j, "type", <<"item-texture">>)
    /\ Has(j, "item") /\ IsItem(Get(j, "item")) /\ HasStr(j, "texture")
IsGetAnyResourceMessage(j) ==
  IsObj(j) /\ IsLiteral(j, "type", <<"get-resource">>)
    /\ HasStr(j, "version") /\ HasStr(j, "resource")
IsAnyResourceResponseMessage(j) ==
  IsObj(j) /\ IsLiteral(j, "type", <<"resource">>)
    /\ HasStr(j, "version") /\ HasStr(j, "resource") /\ HasStr(j, "texture")
IsUpdateItemComponentsMessage(j) ==
  IsObj(j) /\ IsLiteral(j, "type", <<"update-item-components">>)
    /\ Has(j, "components") /\ IsStrArray(Get(j, "components"))

\* ServerMessages.safeParse(j).success
IsServerMessage(j) ==
  \/ IsItemTextureResponseMessage(j)
  \/ IsUpdateItemMessage(j)
  \/ IsUpdateMinecraftVersionsMessage(j)
  \/ IsAnyResourceResponseMessage(j)
  \/ IsUpdateItemComponentsMessage(j)

\* ClientMessages.safeParse(j).success
IsClientMessage(j) ==
  \/ IsGetItemTextureMessage(j)
  \/ IsUpdateItemMessage(j)
  \/ IsReadyMessage(j)
  \/ IsGetAnyResourceMessage(j)

\* parsed.data.type
MessageType(j) == Get(j, "type").s[1]

\* The messages the host posts.
UpdateItemMsg(it) ==
  JObj(<< <<"type", JStr(<<"update-item">>)>>,
          <<"item", IF it = Null THEN JNull ELSE ItemJson(it)>> >>)
UpdateVersionsMsg(vs) ==
  JObj(<< <<"type", JStr(<<"update-versions">>)>>,
          <<"versions", JArr([i \in 1..Len(vs) |-> JStr(vs[i])])>> >>)
UpdateItemComponentsMsg(cs) ==
  JObj(<< <<"type", JStr(<<"update-item-components">>)>>,
          <<"components", JArr([i \in 1..Len(cs) |-> JStr(cs[i])])>> >>)
ItemTextureMsg(it, content) ==
  JObj(<< <<"type", JStr(<<"item-texture">>)>>,
          <<"item", ItemJson(it)>>,
          <<"texture", JStr(content)>> >>)
ResourceMsg(v, r, content) ==
  JObj(<< <<"type", JStr(<<"resource">>)>>,
          <<"version", JStr(v)>>,
          <<"resource", JStr(r)>>,
          <<"texture", JStr(content)>> >>)

\* The messages the rendering side posts.
ReadyMsg == JObj(<< <<"type", JStr(<<"ready">>)>> >>)
GetItemTextureMsg(it) ==
  JObj(<< <<"type", JStr(<<"get-item-texture">>)>>, <<"item", ItemJson(it)>> >>)
GetResourceMsg(v, r) ==
  JObj(<< <<"type", JStr(<<"get-resource">>)>>,
          <<"version", JStr(v)>>,
          <<"resource", JStr(r)>> >>)

-----------------------------------------------------------------------------
(* The host: the disk, the unpack tasks and the message handlers. *)

Versions == InstalledVersions
Slots == 1..MaxHandlers
TaskIds == 1..MaxTasks

\* exists(getUnpackedVersionDirectory(version))
DirExistsNever(v) == FALSE
DirExists(v) == "dir" \in disk[v]

\* The part of a bundle a file belongs to: the subtree unpackVersion extracts
\* it with, or the reports the data generator writes under datagen/.
BundlePart(p) == IF p[1] = "datagen" THEN "reports" ELSE p[1]

\* The archive of an installed version (versions/<v>/<v>.jar, line 80), as
\* path.relative names it from the bundle directory of a version
\* (.basalt/unpacked/<version>, line 88).
JarFromBundle(v) ==
  <<"..", "/", "..", "/", "..", "/", "versions", "/">> \o v \o <<"/">> \o v \o <<".jar">>

\* Whether the file p (relative to the bundle of v) can be read: a file of
\* the bundle whose part is on disk, or the archive of an installed version.
FileExists(v, p) ==
  \/ p \in BundleFiles /\ BundlePart(p) \in disk[v]
  \/ \E w \in InstalledVersions : p = JarFromBundle(w)

\* A bundle all of whose parts are on disk.
FullBundle == {"dir", "textures", "models", "font", "reports"}

\* tasks[t] when no unsettled unpackVersion call holds t.
NoTask == [version |-> << >>, pc |-> "none"]

\* The unsettled unpackVersion calls for version v.
RunningFor(v) == {t \in TaskIds : tasks[t].pc # "none" /\ tasks[t].version = v}

FreeTasks == {t \in TaskIds : tasks[t].pc = "none"}
\* The id a new unpackVersion call takes (ids of settled calls are reused).
FreeTask == CHOOSE t \in FreeTasks : \A u \in FreeTasks : t <= u

\* What was true of the bundle of v when a handler called ensureUnpackedVersion:
\* whether all its parts were on disk, and whether an unpack task was running
\* ("running" is reset when that task settles).  Kept by a handler whose call
\* returned on the directory check, dropped by one that awaits a task.
NoSnapshot == [full |-> FALSE, running |-> FALSE]
Snapshot(v) == [full |-> disk[v] = FullBundle, running |-> RunningFor(v) # {}]

Idle ==
  [pc |-> "idle", type |-> "", item |-> Null, version |-> << >>, resource |-> << >>,
   task |-> 0, found |-> FALSE, path |-> << >>, at |-> NoSnapshot]

IdleSlots == {h \in Slots : handlers[h].pc = "idle"}
\* The slot a new handler takes (slots are interchangeable).
FreeSlot == CHOOSE h \in IdleSlots : \A g \in IdleSlots : h <= g

\* The value of settled after a step in which no unpack task settled.
NoSettle == [version |-> << >>, outcome |-> "none", exit |-> 0 - 1]

\* hashItem: md5 of JSON.stringify(item), as the serialised item it digests.
hashItem(it) == [md5 |-> ItemJson(it)]

\* What the host posts for a message that fails validation (line 329: nothing).
HostRejectEcho(m) == << UpdateItemMsg(Null) >>
HostReject(m) == << >>

\* ItemEditorDocument.write (lines 32-41): the item and hash it leaves, and
\* whether _onDidChangeCustomDocument fires.
DocAfterWriteAlways(it) == [item |-> it, hash |-> hashItem(it), fired |-> TRUE]
DocAfterWrite(it) ==
  IF docHash = Null \/ docHash # hashItem(it)
    THEN [item |-> it, hash |-> hashItem(it), fired |-> TRUE]
    ELSE [item |-> docItem, hash |-> docHash, fired |-> FALSE]

\* A handler is started for message m: the state it is suspended in.
Started(m) ==
  LET ty == MessageType(m) IN
  CASE ty = "get-item-texture" ->
         [Idle EXCEPT !.pc = "ensure", !.type = ty, !.item = ParseItem(Get(m, "item")),
                      !.version = ParseItem(Get(m, "item")).minecraftVersion,
                      !.found = DirExists(ParseItem(Get(m, "item")).minecraftVersion),
                      !.at = Snapshot(ParseItem(Get(m, "item")).minecraftVersion)]
    [] ty = "get-resource" ->
         [Idle EXCEPT !.pc = "ensure", !.type = ty, !.version = Get(m, "version").s,
                      !.resource = Get(m, "resource").s,
                      !.found = DirExists(Get(m, "version").s),
                      !.at = Snapshot(Get(m, "version").s)]
    [] ty = "update-item" ->
         [Idle EXCEPT !.pc = "components", !.type = ty,
                      !.version = ParseItem(Get(m, "item")).minecraftVersion]
    [] OTHER ->
         [Idle EXCEPT !.pc = "components", !.type = ty, !.version = docItem.minecraftVersion]

\* Whether the handler of m returns before its first suspension on the disk.
ReturnsAtOnce(m) ==
  LET ty == MessageType(m) IN
  CASE ty = "get-item-texture" ->
         ParseItem(Get(m, "item")).minecraftVersion \notin InstalledVersions
    [] ty = "get-resource" -> Get(m, "version").s \notin InstalledVersions
    [] ty = "update-item" -> Get(m, "item").t = "null"
    [] OTHER -> IF docItem = Null THEN TRUE ELSE docItem.minecraftVersion = << >>

\* What the ready handler posts before its first suspension (lines 383-391).
ReadyReplySwapped(item, versions) == << UpdateVersionsMsg(versions), UpdateItemMsg(item) >>
ReadyReply(item, versions) == << UpdateItemMsg(item), UpdateVersionsMsg(versions) >>

\* A step of the host in which the rendering side does nothing.
HostStep ==
  /\ viewIn' = NoInput
  /\ viewPosted' = << >>
  /\ ClosedChannelStays
  /\ UNCHANGED <<viewVars, file, previewVars, mounted, fnVars>>

\* webviewPanel.webview.onDidReceiveMessage, up to the point where the handler
\* waits for an answer of the disk that depends on the unpack tasks: for a
\* request, getMinecraftVersions (the versions folder is static) and the
\* directory check of ensureUnpackedVersion (line 184), which the disk answers
\* as it is when the call is made.
HostReceive(m) ==
  /\ hostIn' = m
  /\ settled' = NoSettle
  /\ HostStep
  /\ UNCHANGED <<runningUnpackTasks, tasks, disk>>
  /\ IF ~IsClientMessage(m)
       THEN /\ posted' = HostReject(m)
            /\ didChange' = FALSE
            /\ UNCHANGED <<docItem, docHash, handlers>>
       ELSE /\ IF ReturnsAtOnce(m) THEN TRUE ELSE IdleSlots # {}
            /\ posted' = IF MessageType(m) = "ready"
                           THEN ReadyReply(docItem, VersionList)
                           ELSE << >>
            /\ IF MessageType(m) = "update-item" /\ Get(m, "item").t # "null"
                 THEN /\ docItem' = DocAfterWrite(ParseItem(Get(m, "item"))).item
                      /\ docHash' = DocAfterWrite(ParseItem(Get(m, "item"))).hash
                      /\ didChange' = DocAfterWrite(ParseItem(Get(m, "item"))).fired
                 ELSE /\ UNCHANGED <<docItem, docHash>>
                      /\ didChange' = FALSE
            /\ IF ReturnsAtOnce(m)
                 THEN UNCHANGED handlers
                 ELSE handlers' = [handlers EXCEPT ![FreeSlot] = Started(m)]

\* A step of a suspended handler or of an unpack task: no message comes in.
Internal ==
  /\ hostIn' = NoInput
  /\ didChange' = FALSE
  /\ HostStep

NewTask(v) == [version |-> v, pc |-> "mkdir"]

\* What ensureUnpackedVersion does once the directory check has answered
\* (lines 184-190): "return", "join" the task of the table, or "start" one.
EnsureDecisionNoTable(found, v) == IF found THEN "return" ELSE "start"
EnsureDecision(found, v) ==
  IF found THEN "return"
  ELSE IF runningUnpackTasks[v] # 0 THEN "join" ELSE "start"

\* The segments of a path: its pieces between the separators.
RECURSIVE Segments(_)
Segments(p) ==
  IF IndexOf(p, "/") = 0 - 1 THEN << p >>
  ELSE << SubSeq(p, 1, IndexOf(p, "/")) >> \o Segments(Substring(p, IndexOf(p, "/") + 1))

\* path.normalize on segments: empty and "." segments go, ".." takes the
\* segment before it away, and stays where there is none to take.
RECURSIVE Normalized(_, _)
Normalized(segs, done) ==
  IF segs = << >> THEN done
  ELSE LET seg == Head(segs) IN
    Normalized(Tail(segs),
      CASE seg = << >> \/ seg = <<".">> -> done
        [] seg = <<"..">> /\ done # << >> /\ done[Len(done)] # <<"..">> ->
             SubSeq(done, 1, Len(done) - 1)
        [] OTHER -> Append(done, seg))

RECURSIVE Joined(_)
Joined(segs) ==
  IF segs = << >> THEN << >>
  ELSE IF Len(segs) = 1 THEN segs[1]
  ELSE segs[1] \o <<"/">> \o Joined(Tail(segs))

\* getUnpackedResource (lines 202-207): path.join of the bundle directory
\* and the resource string, as the path relative to the bundle directory;
\* a result that leaves the directory starts with "..".
getUnpackedResource(resource) == Joined(Normalized(Segments(resource), << >>))

\* Whether a path relative to the bundle directory names a file inside it.
InsideBundle(p) == p # << >> /\ Segments(p)[1] # <<"..">>

\* The handler once ensureUnpackedVersion has resolved: getUnpackedItemResource
\* is called and suspends on its sprite check (line 339); getUnpackedResource
\* has no suspension of its own, so its path is there and the file read is
\* issued (lines 356-357).
AfterEnsure(hd) ==
  IF hd.type = "get-resource"
    THEN [hd EXCEPT !.pc = "read", !.found = FALSE, !.task = 0,
                    !.path = getUnpackedResource(hd.resource)]
    ELSE [hd EXCEPT !.pc = "resolve", !.found = FALSE, !.task = 0]

\* ensureUnpackedVersion resumed after the directory check (lines 184-190);
\* unpackVersion runs up to its first mkdir.
EnsureResume(h) ==
  LET v == handlers[h].version
      d == EnsureDecision(handlers[h].found, v) IN
  /\ handlers[h].pc = "ensure"
  /\ d = "start" => FreeTasks # {}
  /\ handlers' = [handlers EXCEPT ![h] =
       CASE d = "return" -> AfterEnsure(handlers[h])
         [] d = "join" -> [handlers[h] EXCEPT !.pc = "await", !.found = FALSE,
                                              !.at = NoSnapshot,
                                              !.task = runningUnpackTasks[v]]
         [] OTHER -> [handlers[h] EXCEPT !.pc = "await", !.found = FALSE,
                                         !.at = NoSnapshot, !.task = FreeTask]]
  /\ tasks' = IF d = "start" THEN [tasks EXCEPT ![FreeTask] = NewTask(v)] ELSE tasks
  /\ runningUnpackTasks' = IF d = "start"
                             THEN [runningUnpackTasks EXCEPT ![v] = FreeTask]
                             ELSE runningUnpackTasks
  /\ posted' = << >>
  /\ settled' = NoSettle
  /\ UNCHANGED <<docItem, docHash, disk>>
  /\ Internal

\* stripMinecraftNamespace
stripMinecraftNamespace(resource) == Substring(resource, IndexOf(resource, "/") + 1)

\* getUnpackedItemResource, line 229: the id without its namespace.
StripIdNamespace(id) == Substring(id, IndexOf(id, ":") + 1)

\* "side" in blockData.textures
HasSide(textures) == \E i \in 1..Len(textures) : textures[i][1] = "side"

\* The property names that are array indices, in ascending numeric order.
IndexKeys == <<"0", "1", "2">>
IsIndexKey(k) == \E i \in 1..Len(IndexKeys) : IndexKeys[i] = k

\* Object.values of a parsed JSON object whose entries were declared in the
\* order of kv: the values of the array-index keys in ascending numeric order
\* first, then the values of the other keys in the order of declaration.
ObjectValues(kv) ==
  LET HasKey(k) == \E i \in 1..Len(kv) : kv[i][1] = k
      ValueOf(k) == kv[CHOOSE i \in 1..Len(kv) : kv[i][1] = k][2]
      indexed == SelectSeq(IndexKeys, HasKey)
      named == SelectSeq(kv, LAMBDA e : ~IsIndexKey(e[1])) IN
  [i \in 1..Len(indexed) |-> ValueOf(indexed[i])]
    \o [i \in 1..Len(named) |-> named[i][2]]

\* Lines 242-246: the texture reference chosen from a block model's textures
\* (there is one: see ModelThrows).
ModelTexture(textures) ==
  IF HasSide(textures)
    THEN textures[CHOOSE i \in 1..Len(textures) : textures[i][1] = "side"][2]
    ELSE ObjectValues(textures)[1]

\* Lines 245-248: Object.values(...)[0] is undefined for a model without
\* textures, and stripMinecraftNamespace of undefined throws a TypeError.
ModelThrows(textures) == ~HasSide(textures) /\ textures = << >>

\* Lines 242-248: the path derived from the textures of a block model.
TexturePath(textures) == BlockTexturePath(stripMinecraftNamespace(ModelTexture(textures)))

\* Line 248: the path derived from the block model of name.
ModelDerivedPath(name) == TexturePath(JarBlockModel(name))

\* getUnpackedItemResource, lines 232-233: whether the direct sprite is taken.
TakesSpriteUnlessModel(v, name) ==
  FileExists(v, ItemSpritePath(name)) /\ ~FileExists(v, BlockModelPath(name))
TakesSprite(v, name) == FileExists(v, ItemSpritePath(name))

\* getUnpackedItemResource, lines 229-233: the sprite check is made on the disk.
Resolve(h) ==
  LET hd == handlers[h]
      name == StripIdNamespace(hd.item.id) IN
  /\ hd.pc = "resolve"
  /\ handlers' = [handlers EXCEPT ![h] =
       IF TakesSprite(hd.version, name)
         THEN [hd EXCEPT !.pc = "read", !.found = TRUE, !.path = ItemSpritePath(name)]
         ELSE [hd EXCEPT !.pc = "model", !.found = FALSE]]
  /\ posted' = << >>
  /\ settled' = NoSettle
  /\ UNCHANGED <<docItem, docHash, runningUnpackTasks, tasks, disk>>
  /\ Internal

\* getUnpackedItemResource, lines 235-248: the block model is read; the call
\* rejects when the file is absent.
ModelRead(h) ==
  LET hd == handlers[h]
      name == StripIdNamespace(hd.item.id) IN
  /\ hd.pc = "model"
  /\ handlers' = [handlers EXCEPT ![h] =
       IF FileExists(hd.version, BlockModelPath(name))
         THEN IF ModelThrows(JarBlockModel(name))
                THEN Idle
                ELSE [hd EXCEPT !.pc = "read", !.path = ModelDerivedPath(name)]
         ELSE Idle]
  /\ posted' = << >>
  /\ settled' = NoSettle
  /\ UNCHANGED <<docItem, docHash, runningUnpackTasks, tasks, disk>>
  /\ Internal

\* The handler whose fields a response echoes (lines 342-346, 359-364): the
\* handler's own parsed message.
EchoOfOther(h) ==
  IF \E g \in Slots : g # h /\ handlers[g].type = handlers[h].type
    THEN handlers[CHOOSE g \in Slots : g # h /\ handlers[g].type = handlers[h].type]
    ELSE handlers[h]
Echo(h) == handlers[h]

\* fs.readFile(path, base64) and the postMessage that follows (lines 340-346,
\* 357-364); nothing is posted when the read fails.
ReadFile(h) ==
  LET hd == handlers[h]
      content == FileContent(hd.version, hd.path) IN
  /\ hd.pc = "read"
  /\ posted' = IF ~FileExists(hd.version, hd.path) THEN << >>
               ELSE IF hd.type = "get-resource"
                 THEN << ResourceMsg(Echo(h).version, Echo(h).resource, content) >>
                 ELSE << ItemTextureMsg(Echo(h).item, content) >>
  /\ handlers' = [handlers EXCEPT ![h] = Idle]
  /\ settled' = NoSettle
  /\ UNCHANGED <<docItem, docHash, runningUnpackTasks, tasks, disk>>
  /\ Internal

\* getItemComponents: whether registries.json of the version can be read.
CanReadRegistries(v) == IF v \in Versions THEN FileExists(v, RegistriesPath) ELSE FALSE

\* getItemComponents and the postMessage that follows (lines 373-376, 394-397);
\* nothing is posted when registries.json cannot be read.
ReadComponents(h) ==
  LET hd == handlers[h] IN
  /\ hd.pc = "components"
  /\ posted' = IF CanReadRegistries(hd.version)
                 THEN << UpdateItemComponentsMsg(ComponentNames(hd.version)) >>
                 ELSE << >>
  /\ handlers' = [handlers EXCEPT ![h] = Idle]
  /\ settled' = NoSettle
  /\ UNCHANGED <<docItem, docHash, runningUnpackTasks, tasks, disk>>
  /\ Internal

-----------------------------------------------------------------------------
(* unpackVersion, one step per awaited operation. *)

\* The promise of unpackVersion settles and the table entry stays.
SettleKeepsEntry(t, how, code) ==
  LET v == tasks[t].version IN
  /\ tasks' = [tasks EXCEPT ![t] = NoTask]
  /\ runningUnpackTasks' = runningUnpackTasks
  /\ handlers' = [h \in Slots |->
       LET hd == IF handlers[h].version = v
                   THEN [handlers[h] EXCEPT !.at.running = FALSE]
                   ELSE handlers[h] IN
       IF hd.pc = "await" /\ hd.task = t
         THEN IF how = "resolved" THEN AfterEnsure(hd) ELSE Idle
         ELSE hd]
  /\ settled' = [version |-> v, outcome |-> how, exit |-> code]

\* The promise of unpackVersion settles: the .finally of line 187 deletes the
\* table entry of the version, and every handler awaiting the task goes on
\* (resolved) or ends (rejected) in the same turn.
Settle(t, how, code) ==
  LET v == tasks[t].version IN
  /\ tasks' = [tasks EXCEPT ![t] = NoTask]
  /\ runningUnpackTasks' = [runningUnpackTasks EXCEPT ![v] = 0]
  /\ handlers' = [h \in Slots |->
       LET hd == IF handlers[h].version = v
                   THEN [handlers[h] EXCEPT !.at.running = FALSE]
                   ELSE handlers[h] IN
       IF hd.pc = "await" /\ hd.task = t
         THEN IF how = "resolved" THEN AfterEnsure(hd) ELSE Idle
         ELSE hd]
  /\ settled' = [version |-> v, outcome |-> how, exit |-> code]

TaskFrame ==
  /\ posted' = << >>
  /\ UNCHANGED <<docItem, docHash>>
  /\ Internal

Continues ==
  /\ settled' = NoSettle
  /\ UNCHANGED <<runningUnpackTasks, handlers>>

\* Lines 110-112: the bundle directory and its datagen and font folders.
TaskMkdir(t) ==
  /\ tasks[t].pc = "mkdir"
  /\ disk' = [disk EXCEPT ![tasks[t].version] = @ \cup {"dir"}]
  /\ tasks' = [tasks EXCEPT ![t].pc = "textures"]
  /\ Continues
  /\ TaskFrame

\* Line 110 fails (the directory cannot be created).
TaskMkdirFails(t) ==
  /\ tasks[t].pc = "mkdir"
  /\ Settle(t, "rejected", 0 - 1)
  /\ UNCHANGED disk
  /\ TaskFrame

\* The step after an extraction, with the font subtree left out.
NextPartSkipsFont(part) ==
  CASE part = "textures" -> "models"
    [] OTHER -> "command"

NextPart(part) ==
  CASE part = "textures" -> "models"
    [] part = "models" -> "font"
    [] OTHER -> "command"

\* Lines 124-147: the archive is opened with the first extraction and closed
\* with the last; each of the three subtrees is extracted in turn.
TaskExtract(t) ==
  /\ tasks[t].pc \in {"textures", "models", "font"}
  /\ disk' = [disk EXCEPT ![tasks[t].version] = @ \cup {tasks[t].pc}]
  /\ tasks' = [tasks EXCEPT ![t].pc = NextPart(tasks[t].pc)]
  /\ Continues
  /\ TaskFrame

\* The archive cannot be opened, or an extraction fails.
TaskExtractFails(t) ==
  /\ tasks[t].pc \in {"textures", "models", "font"}
  /\ Settle(t, "rejected", 0 - 1)
  /\ UNCHANGED disk
  /\ TaskFrame

\* Lines 160-168: the generator command is built and the process spawned.
TaskSpawn(t) ==
  /\ tasks[t].pc = "command"
  /\ tasks' = [tasks EXCEPT ![t].pc = "process"]
  /\ UNCHANGED disk
  /\ Continues
  /\ TaskFrame

\* getDatagenRunCommand rejects or spawn fails inside the async executor of
\* line 159: neither res nor rej is called, the promise stays pending.
TaskSpawnFails(t) ==
  /\ tasks[t].pc = "command"
  /\ tasks' = [tasks EXCEPT ![t].pc = "hung"]
  /\ UNCHANGED disk
  /\ Continues
  /\ TaskFrame

\* How the task settles when the generator exits with a code (lines 173-176).
ExitOutcome(code) == "resolved"

\* Lines 173-176: the generator exits; it has written its reports when the code is 0.
TaskExit(t, code) ==
  /\ tasks[t].pc = "process"
  /\ Settle(t, ExitOutcome(code), code)
  /\ disk' = IF code = 0 THEN [disk EXCEPT ![tasks[t].version] = @ \cup {"reports"}]
                         ELSE disk
  /\ TaskFrame

-----------------------------------------------------------------------------
(* The rendering side: the App's message listener and the effects it triggers. *)

\* hashItemTexture and hashResource
hashItemTexture(it) == it.minecraftVersion \o <<"##">> \o it.id
hashResource(version, resource) == version \o <<"##">> \o resource

\* The resources the App asks for (util/constant).
GLINT_TEXTURE_PATH == JarGlintTexture
ASCII_FONT_PATH == JarAsciiPage
ACCENTED_FONT_PATH == <<"textures", "/", "font", "/", "accented", ".png">>
NONLATIN_EUROPEAN_FONT_PATH == <<"textures", "/", "font", "/", "nonlatin_european", ".png">>

\* { [key]: value }, without the entries of the cache.
ObjSetAlone(cache, key, value) == << <<key, value>> >>

\* { ...cache, [key]: value }
ObjSet(cache, key, value) ==
  IF \E i \in 1..Len(cache) : cache[i][1] = key
    THEN [i \in 1..Len(cache) |-> IF cache[i][1] = key THEN <<key, value>> ELSE cache[i]]
    ELSE Append(cache, <<key, value>>)

ObjKeys(cache) == {cache[i][1] : i \in 1..Len(cache)}

\* editedItem?.minecraftVersion (Null for undefined)
VersionOf(it) == IF it = Null THEN Null ELSE [version |-> it.minecraftVersion]

\* The effect on [editedItem] (lines 232-236); a parsed item is a new object.
ItemEffectAndReady(old, new) ==
  IF new = Null THEN << >>
  ELSE << UpdateItemMsg(new), GetItemTextureMsg(new), ReadyMsg >>
ItemEffect(old, new) ==
  IF new = Null THEN << >>
  ELSE << UpdateItemMsg(new), GetItemTextureMsg(new) >>

\* The effect on [editedItem?.minecraftVersion] (lines 238-246).
VersionEffect(old, new) ==
  IF new = Null \/ VersionOf(old) = VersionOf(new) THEN << >>
  ELSE << GetResourceMsg(new.minecraftVersion, GLINT_TEXTURE_PATH),
          GetResourceMsg(new.minecraftVersion, ASCII_FONT_PATH),
          GetResourceMsg(new.minecraftVersion, ACCENTED_FONT_PATH),
          GetResourceMsg(new.minecraftVersion, NONLATIN_EUROPEAN_FONT_PATH) >>

\* The window "message" listener of App (lines 193-227) with the effects of
\* App run by the state it sets.
AppReceive(m) ==
  LET ty == MessageType(m) IN
  /\ viewIn' = m
  /\ hostIn' = NoInput
  /\ posted' = << >>
  /\ settled' = [version |-> << >>, outcome |-> "none", exit |-> 0 - 1]
  /\ didChange' = FALSE
  /\ UNCHANGED <<hostVars, file, fnVars>>
  /\ IF ~IsServerMessage(m)
       THEN /\ UNCHANGED viewVars
            /\ viewPosted' = << >>
       ELSE /\ editedItem' = IF ty = "update-item" THEN ParseNullableItem(Get(m, "item"))
                                                   ELSE editedItem
            /\ minecraftVersions' =
                 IF ty = "update-versions"
                   THEN [i \in 1..Len(Get(m, "versions").a) |-> Get(m, "versions").a[i].s]
                   ELSE minecraftVersions
            /\ itemTextures' =
                 IF ty = "item-texture"
                   THEN ObjSet(itemTextures, hashItemTexture(ParseItem(Get(m, "item"))),
                               Get(m, "texture").s)
                   ELSE itemTextures
            /\ resources' =
                 IF ty = "resource"
                   THEN ObjSet(resources, hashResource(Get(m, "version").s, Get(m, "resource").s),
                               Get(m, "texture").s)
                   ELSE resources
            /\ itemComponents' =
                 IF ty = "update-item-components"
                   THEN [i \in 1..Len(Get(m, "components").a) |-> Get(m, "components").a[i].s]
                   ELSE itemComponents
            /\ viewPosted' = IF ty = "update-item"
                               THEN ItemEffect(editedItem, editedItem')
                                      \o VersionEffect(editedItem, editedItem')
                               ELSE << >>

-----------------------------------------------------------------------------
(* The tooltip (buildTooltip, src/src/item-editor/index.tsx). *)

\* A colour as the code holds it: no value, a string, a PIXI.Color.
NoColor == [undefined |-> TRUE]
ColorString(s) == [string |-> s]
PIXIColor(rgb) == [rgb |-> rgb]

\* Text components: a string, an object with a text, a colour and children
\* (an object without extra has no children), an array.
MString(text) == [t |-> "string", text |-> text]
MColored(text, color, extra) ==
  [t |-> "object", text |-> text, color |-> color, extra |-> extra]
MObject(text, extra) == MColored(text, NoColor, extra)
MArray(items) == [t |-> "array", items |-> items]

\* MINECRAFT_COLORS (lines 39-56)
MINECRAFT_COLORS ==
  [name \in {"black", "dark_blue", "dark_green", "dark_aqua", "dark_red", "dark_purple",
             "gold", "gray", "dark_gray", "blue", "green", "aqua", "red", "light_purple",
             "yellow", "white"} |->
     CASE name = "black" -> "#000000" [] name = "dark_blue" -> "#0000AA"
       [] name = "dark_green" -> "#00AA00" [] name = "dark_aqua" -> "#00AAAA"
       [] name = "dark_red" -> "#AA0000" [] name = "dark_purple" -> "#AA00AA"
       [] name = "gold" -> "#FFAA00" [] name = "gray" -> "#AAAAAA"
       [] name = "dark_gray" -> "#555555" [] name = "blue" -> "#5555FF"
       [] name = "green" -> "#55FF55" [] name = "aqua" -> "#55FFFF"
       [] name = "red" -> "#FF5555" [] name = "light_purple" -> "#FF55FF"
       [] name = "yellow" -> "#FFFF55" [] name = "white" -> "#FFFFFF"]

TOOLTIP_DEFAULT_TEXT_COLOR == PIXIColor("#FFFFFF")

\* The keys of DEFAULT_TEXT_STYLE (lines 70-73).
DEFAULT_TEXT_STYLE == {"fontFamily", "fontSize"}

\* new PIXI.Color(string): the colour of a CSS name or hex string; it throws
\* on a string that is neither.
NewPIXIColor(color) ==
  CASE color = "red" -> PIXIColor("#FF0000")
    [] color = "gold" -> PIXIColor("#FFD700")
    [] color = "#FFFFFF" -> PIXIColor("#FFFFFF")
    [] OTHER -> Thrown("Error")

\* toPIXIColor (lines 79-82): the table is consulted for the keys of
\* DEFAULT_TEXT_STYLE, which it does not hold.
toPIXIColor(color) ==
  IF color \in DEFAULT_TEXT_STYLE
    THEN IF color \in DOMAIN MINECRAFT_COLORS
           THEN PIXIColor(MINECRAFT_COLORS[color]) ELSE NoColor
    ELSE NewPIXIColor(color)

\* top.color ? ... : ..., and top.color ?? ...
Truthy(color) == IF color = NoColor THEN FALSE ELSE color.string # ""
Nullish(color) == color = NoColor

TOOLTIP_PADDING_OUT_X == 8
TOOLTIP_PADDING_OUT_Y == 8
TOOLTIP_PADDING_INNER_X == 8
TOOLTIP_PADDING_INNER_Y == 8
\* fontSize of DEFAULT_TEXT_STYLE
FONT_SIZE == 24

\* Math.max
MathMax(a, b) == IF a >= b THEN a ELSE b

\* The rows of a text: the stretches between its newlines.
RECURSIVE TextRows(_)
TextRows(text) ==
  IF \A i \in 1..Len(text) : text[i] # "\n" THEN << text >>
  ELSE LET n == CHOOSE i \in 1..Len(text) :
                  text[i] = "\n" /\ \A j \in 1..(i - 1) : text[j] # "\n" IN
       << SubSeq(text, 1, n - 1) >> \o TextRows(SubSeq(text, n + 1, Len(text)))

\* text.width and text.height of a PIXI.Text in the tooltip style: one em per
\* character of the longest row, one font size per row.
TextWidth(text) ==
  LET rows == TextRows(text)
      longest == CHOOSE i \in 1..Len(rows) : \A j \in 1..Len(rows) : Len(rows[i]) >= Len(rows[j]) IN
  FONT_SIZE * Len(rows[longest])
TextHeight(text) == FONT_SIZE * Len(TextRows(text))

\* The while loop over the parts of one line (lines 96-131), in the order a
\* stack would yield the parts.
RECURSIVE PlacePartsDepthFirst(_, _, _, _, _)
PlacePartsDepthFirst(parts, currentX, textHeight, currentY, children) ==
  IF parts = << >>
    THEN [currentX |-> currentX, textHeight |-> textHeight, children |-> children,
          thrown |-> FALSE]
  ELSE LET top == Head(parts)[1]
           parentColor == Head(parts)[2]
           rest == Tail(parts) IN
       IF top.t = "array"
         THEN PlacePartsDepthFirst(
                [i \in 1..Len(top.items) |-> <<top.items[i], parentColor>>] \o rest,
                currentX, textHeight, currentY, children)
       ELSE LET text == [text |-> top.text, x |-> currentX, y |-> currentY,
                         width |-> TextWidth(top.text), height |-> TextHeight(top.text),
                         fill |-> parentColor]
                extra == IF top.t = "object" THEN top.extra ELSE << >> IN
            PlacePartsDepthFirst([i \in 1..Len(extra) |-> <<extra[i], parentColor>>] \o rest,
                                 currentX + text.width, MathMax(0, text.height),
                                 currentY, Append(children, text))

\* The while loop over the parts of one line (lines 96-131): the runs are
\* placed left to right in the order the queue yields them, each part with
\* the colour queued with it.
RECURSIVE PlaceParts(_, _, _, _, _)
PlaceParts(parts, currentX, textHeight, currentY, children) ==
  IF parts = << >>
    THEN [currentX |-> currentX, textHeight |-> textHeight, children |-> children,
          thrown |-> FALSE]
  ELSE LET top == Head(parts)[1]
           parentColor == Head(parts)[2]
           rest == Tail(parts) IN
       IF top.t = "array"
         THEN PlaceParts(rest \o [i \in 1..Len(top.items) |-> <<top.items[i], parentColor>>],
                         currentX, textHeight, currentY, children)
       ELSE LET fill == IF top.t = "object" /\ Truthy(top.color)
                          THEN toPIXIColor(top.color.string) ELSE parentColor
                down == IF top.t = "object" /\ ~Nullish(top.color)
                          THEN top.color ELSE parentColor
                text == [text |-> top.text, x |-> currentX, y |-> currentY,
                         width |-> TextWidth(top.text), height |-> TextHeight(top.text),
                         fill |-> fill]
                extra == IF top.t = "object" THEN top.extra ELSE << >> IN
            IF "error" \in DOMAIN fill
              THEN [currentX |-> currentX, textHeight |-> textHeight,
                    children |-> children, thrown |-> TRUE]
              ELSE PlaceParts(rest \o [i \in 1..Len(extra) |-> <<extra[i], down>>],
                              currentX + text.width, MathMax(0, text.height),
                              currentY, Append(children, text))

\* The for loop over the lines (lines 90-135).
RECURSIVE PlaceLines(_, _, _, _)
PlaceLines(lines, currentY, maxWidth, children) ==
  IF lines = << >>
    THEN [currentY |-> currentY, maxWidth |-> maxWidth, children |-> children,
          thrown |-> FALSE]
  ELSE LET placed == PlaceParts(<< <<Head(lines), TOOLTIP_DEFAULT_TEXT_COLOR>> >>,
                                0, 0, currentY, << >>) IN
       IF placed.thrown
         THEN [currentY |-> currentY, maxWidth |-> maxWidth, children |-> children,
               thrown |-> TRUE]
         ELSE PlaceLines(Tail(lines), currentY + placed.textHeight,
                         MathMax(maxWidth, placed.currentX), children \o placed.children)

\* buildTooltip (lines 84-165): the text container with its children and the
\* two rectangles drawn behind it.
buildTooltip(lines) ==
  LET placed == PlaceLines(lines, 0, 0, << >>) IN
  IF placed.thrown THEN Thrown("Error") ELSE
  [textContainer |->
     [x |-> TOOLTIP_PADDING_OUT_X + TOOLTIP_PADDING_INNER_X,
      y |-> TOOLTIP_PADDING_OUT_Y + TOOLTIP_PADDING_INNER_Y,
      children |-> placed.children],
   rect |->
     [x |-> 0, y |-> 0,
      width |-> placed.maxWidth + TOOLTIP_PADDING_OUT_X * 2 + TOOLTIP_PADDING_INNER_X * 2,
      height |-> placed.currentY + TOOLTIP_PADDING_OUT_Y * 2 + TOOLTIP_PADDING_INNER_Y * 2],
   roundRect |->
     [x |-> TOOLTIP_PADDING_OUT_X, y |-> TOOLTIP_PADDING_OUT_Y,
      width |-> placed.maxWidth + TOOLTIP_PADDING_OUT_X + TOOLTIP_PADDING_INNER_X,
      height |-> placed.currentY + TOOLTIP_PADDING_OUT_Y + TOOLTIP_PADDING_INNER_Y]]

-----------------------------------------------------------------------------
(* The bitmap font (MinecraftBitmapFont, src/unnamed/part_001). *)

\* A provider of the font manifest; NoHeight when it declares no height.
NoHeight == [undefined |-> TRUE]
Height(n) == [value |-> n]
Provider(fontFile, height, chars) == [file |-> fontFile, height |-> height, chars |-> chars]

\* MC2PAGE: the page of a provider file; any other file has none.
PagedFiles ==
  {"minecraft:font/ascii.png", "minecraft:font/accented.png",
   "minecraft:font/nonlatin_european.png"}
MC2PAGE(fontFile) ==
  CASE fontFile = "minecraft:font/ascii.png" -> 0
    [] fontFile = "minecraft:font/accented.png" -> 1
    [] fontFile = "minecraft:font/nonlatin_european.png" -> 2

\* charCodeAt of the letters the rows are written in.
CharCode(letter) ==
  CASE letter = "a" -> 97
    [] letter = "b" -> 98
    [] letter = "c" -> 99
    [] letter = "d" -> 100

\* provider.height ?? 8
DEFAULT_ROW_HEIGHT == 8
RowHeight(provider) ==
  IF provider.height = NoHeight THEN DEFAULT_ROW_HEIGHT ELSE provider.height.value

\* Math.floor(textures[page].width / row.length), rounded up instead.
CellWidthRoundedUp(textureWidth, n) == (textureWidth + n - 1) \div n

\* Math.floor(textures[page].width / row.length)
CellWidth(textureWidth, n) == textureWidth \div n

\* chars[id] = cell that keeps an entry already there.
AssignOnce(chars, id, cell) ==
  [x \in DOMAIN chars \cup {id} |-> IF x \in DOMAIN chars THEN chars[x] ELSE cell]

\* chars[id] = cell
Assign(chars, id, cell) ==
  [x \in DOMAIN chars \cup {id} |-> IF x = id THEN cell ELSE chars[x]]

\* The loop over the columns j, j+1, ... of row i (lines 42-63).
RECURSIVE GenerateRow(_, _, _, _, _, _)
GenerateRow(chars, provider, page, width, i, j) ==
  LET row == provider.chars[i + 1] IN
  IF j >= Len(row) THEN chars
  ELSE LET id == CharCode(row[j + 1])
           cell == [id |-> id, page |-> page,
                    x |-> j * width, y |-> i * RowHeight(provider),
                    width |-> width, height |-> RowHeight(provider),
                    letter |-> row[j + 1], xAdvance |-> width,
                    yOffset |-> 0, xOffset |-> 0, kerning |-> << >>] IN
       GenerateRow(Assign(chars, id, cell), provider, page, width, i, j + 1)

\* The loop over the rows i, i+1, ... of a provider (lines 38-64); width is
\* Math.floor(textures[page].width / row.length), not a number for an empty
\* row, which assigns nothing.
RECURSIVE GenerateRows(_, _, _, _, _)
GenerateRows(chars, provider, page, textures, i) ==
  IF i >= Len(provider.chars) THEN chars
  ELSE LET row == provider.chars[i + 1]
           width == IF Len(row) = 0 THEN 0 ELSE CellWidth(textures[page + 1].width, Len(row)) IN
       GenerateRows(GenerateRow(chars, provider, page, width, i, 0),
                    provider, page, textures, i + 1)

\* The loop over the providers (lines 34-65): the table, or the TypeError of
\* textures[undefined]!.width for a provider of another file that has a row.
RECURSIVE GenerateProviders(_, _, _)
GenerateProviders(chars, providers, textures) ==
  IF providers = << >> THEN Returned(chars)
  ELSE LET provider == Head(providers)
           page == MC2PAGE(provider.file) IN
       IF provider.file \notin PagedFiles
         THEN IF provider.chars = << >>
                THEN GenerateProviders(chars, Tail(providers), textures)
                ELSE Thrown("TypeError")
         ELSE GenerateProviders(GenerateRows(chars, provider, page, textures, 0),
                                Tail(providers), textures)

\* MinecraftBitmapFont.generate (lines 30-82): the chars of the font built.
generate(data, textures) == GenerateProviders(<< >>, data.providers, textures)

-----------------------------------------------------------------------------
(* The preview context of the rendering side (src/unnamed/part_000). *)

\* The tags of the NBT library, as far as isItemEnchanted tells them apart: a
\* byte or an int with its value, a compound or a list with its number of
\* entries; NoTag is the null of tryParseSNBT.
NoTag == [tag |-> "null"]
ByteTag(n) == [tag |-> "byte", value |-> n]
IntTag(n) == [tag |-> "int", value |-> n]
CompoundTag(n) == [tag |-> "compound", size |-> n]
ListTag(n) == [tag |-> "list", size |-> n]

\* NBT.parseSNBT: the tag a text stands for; it throws on any other text.
parseSNBT(snbt) ==
  CASE snbt = <<"1", "b">> -> ByteTag(1)
    [] snbt = <<"true">> -> ByteTag(1)
    [] snbt = <<"0", "b">> -> ByteTag(0)
    [] snbt = <<"false">> -> ByteTag(0)
    [] snbt = <<"1">> -> IntTag(1)
    [] snbt = <<"{", "}">> -> CompoundTag(0)
    [] snbt = <<"{", "sharpness", ":", "1", "}">> -> CompoundTag(1)
    [] snbt = <<"[", "]">> -> ListTag(0)
    [] snbt = <<"[", "1", "]">> -> ListTag(1)
    [] OTHER -> Thrown("SyntaxError")

\* tryParseSNBT (lines 30-36): null when NBT.parseSNBT throws.
tryParseSNBT(snbt) ==
  LET parsed == parseSNBT(snbt) IN
  IF "error" \in DOMAIN parsed THEN NoTag ELSE parsed

\* text.replaceAll("\n", "")
RemoveNewlines(text) == SelectSeq(text, LAMBDA c : c # "\n")

\* key in item.components, and item.components[key]
HasComponent(item, key) ==
  \E i \in 1..Len(item.components) : item.components[i][1] = key
Component(item, key) ==
  item.components[CHOOSE i \in 1..Len(item.components) : item.components[i][1] = key][2]

GLINT_OVERRIDE == "minecraft:enchantment_glint_override"
ENCHANTMENTS == "minecraft:enchantments"

\* isItemEnchanted with the override and the enchantments both able to decide.
isItemEnchantedEither(item) ==
  \/ /\ HasComponent(item, GLINT_OVERRIDE)
     /\ tryParseSNBT(RemoveNewlines(Component(item, GLINT_OVERRIDE))) = ByteTag(1)
  \/ /\ HasComponent(item, ENCHANTMENTS)
     /\ LET parsed == tryParseSNBT(RemoveNewlines(Component(item, ENCHANTMENTS))) IN
        parsed.tag = "compound" /\ parsed.size > 0

\* isItemEnchanted with an override that enchants unless it is the byte 0.
isItemEnchantedUnlessZero(item) ==
  IF HasComponent(item, GLINT_OVERRIDE)
    THEN tryParseSNBT(RemoveNewlines(Component(item, GLINT_OVERRIDE))) # ByteTag(0)
  ELSE IF HasComponent(item, ENCHANTMENTS)
    THEN LET parsed == tryParseSNBT(RemoveNewlines(Component(item, ENCHANTMENTS))) IN
         parsed.tag = "compound" /\ parsed.size > 0
  ELSE FALSE

\* isItemEnchanted (lines 38-52)
isItemEnchanted(item) ==
  IF HasComponent(item, GLINT_OVERRIDE)
    THEN LET parsed == tryParseSNBT(RemoveNewlines(Component(item, GLINT_OVERRIDE))) IN
         parsed.tag = "byte" /\ parsed.value = 1
  ELSE IF HasComponent(item, ENCHANTMENTS)
    THEN LET parsed == tryParseSNBT(RemoveNewlines(Component(item, ENCHANTMENTS))) IN
         parsed.tag = "compound" /\ parsed.size > 0
  ELSE FALSE

\* key in cache, and cache[key]
CacheHas(cache, key) == \E i \in 1..Len(cache) : cache[i][1] = key
CacheGet(cache, key) == cache[CHOOSE i \in 1..Len(cache) : cache[i][1] = key][2]

\* The texture loadTextureResource resolves to for a base64 resource.
Loaded(resource) == [source |-> resource]

\* The font manifest the preview looks up with the three pages (./constant).
FONT_DATA_JSON == JarFontManifest

\* A step of the preview context: nothing else changes.
OutsidePreview ==
  UNCHANGED <<hostVars, hostOut, viewVars, viewIn, viewPosted, file, fnVars, channel>>
PreviewStep == OutsidePreview /\ UNCHANGED mounted

\* tryLoadEditedTexture up to its await (lines 201-215): whether a load starts
\* for the item and the textures.
ItemLoadStarts(item, textures) ==
  IF item = Null THEN FALSE ELSE CacheHas(textures, hashItemTexture(item))

\* tryLoadEditedTexture called with the item and the textures (lines 200-215):
\* a load of the cached texture is started, or the sprite is cleared.
TryLoadEditedTexture(item, textures, pending) ==
  IF ItemLoadStarts(item, textures)
    THEN /\ loads' = Append(pending, [fn |-> "item",
                                      data |-> CacheGet(textures, hashItemTexture(item))])
         /\ UNCHANGED <<uItemSampler>>
         /\ uniforms' = uniforms
    ELSE /\ loads' = pending
         /\ uItemSampler' = EMPTY
         /\ uniforms' = [uniforms EXCEPT !.hasTexture = 0]

\* tryLoadGlintTexture up to its await (lines 224-234): "none" when there is
\* no item, "clear" when the glint is cleared, "load" when a load starts.
GlintDecision(item, cache) ==
  IF item = Null THEN "none"
  ELSE IF ~CacheHas(cache, hashResource(item.minecraftVersion, GLINT_TEXTURE_PATH))
          \/ ~isItemEnchanted(item)
    THEN "clear"
    ELSE "load"

GlintLoad(item, cache) ==
  [fn |-> "glint",
   data |-> CacheGet(cache, hashResource(item.minecraftVersion, GLINT_TEXTURE_PATH))]

\* tryLoadFonts up to its first await (lines 241-254): whether the three pages
\* and the manifest are all there.
FontsLoadStarts(item, cache) ==
  IF item = Null THEN FALSE
  ELSE /\ CacheHas(cache, hashResource(item.minecraftVersion, ASCII_FONT_PATH))
       /\ CacheHas(cache, hashResource(item.minecraftVersion, ACCENTED_FONT_PATH))
       /\ CacheHas(cache, hashResource(item.minecraftVersion, NONLATIN_EUROPEAN_FONT_PATH))
       /\ CacheHas(cache, hashResource(item.minecraftVersion, FONT_DATA_JSON))

\* The suspended tryLoadFonts: the version its four keys were computed for
\* (lines 243-246), the page it is loading and the textures it has.
FontPages == << ASCII_FONT_PATH, ACCENTED_FONT_PATH, NONLATIN_EUROPEAN_FONT_PATH >>
FontsLoad(item, cache) ==
  [fn |-> "fonts", version |-> item.minecraftVersion, page |-> 1, pages |-> << >>,
   data |-> CacheGet(cache, hashResource(item.minecraftVersion, ASCII_FONT_PATH))]

\* JSON.parse(atob(...)) of the font manifest of a version: the providers of
\* the archive's font/default.json.  The manifest of 1.20 names a page the
\* preview has no texture for.
JarFontData(v) ==
  IF v = V1
    THEN [providers |->
            << Provider("minecraft:font/ascii.png", NoHeight, << <<"a", "b">>, <<"c", "d">> >>),
               Provider("minecraft:font/accented.png", Height(12), << <<"a">> >>) >>]
    ELSE [providers |->
            << Provider("minecraft:font/ascii.png", NoHeight, << <<"a", "b">> >>),
               Provider("minecraft:font/other.png", NoHeight, << <<"c">> >>) >>]

IsManifest(content) == \E v \in InstalledVersions : content = FileContent(v, JarFontManifest)
ManifestOf(content) ==
  JarFontData(CHOOSE v \in InstalledVersions : content = FileContent(v, JarFontManifest))

\* The width of a font page texture.
PAGE_WIDTH == 128

\* The tooltip tryBuildLore builds: buildTooltip(["hi", "hello"]) (line 293).
LORE_LINES == << MString(<<"h", "i">>), MString(<<"h", "e", "l", "l", "o">>) >>

\* A container: whether it is a child of app.stage, whether it is destroyed.
Container(attached, gone) == [attached |-> attached, destroyed |-> gone]

\* container.destroy() removes the container from its parent.
Destroy(tooltip) ==
  IF tooltip = Null THEN Null ELSE Container(FALSE, TRUE)

\* tryBuildLore without its first line: the old tooltip stays on the stage.
TryBuildLoreKeepsOld(tooltip, children, item, fonts, appDestroyed) ==
  IF item = Null \/ fonts = Null
    THEN [builtTooltip |-> tooltip, stage |-> children]
  ELSE IF "error" \in DOMAIN generate(fonts.data, [n \in 1..3 |-> [width |-> PAGE_WIDTH]])
            \/ appDestroyed
    THEN [builtTooltip |-> Container(FALSE, FALSE), stage |-> children]
    ELSE [builtTooltip |-> Container(TRUE, FALSE), stage |-> children + 1]

\* tryBuildLore (lines 273-296): the tooltip and the stage it leaves.  The
\* old tooltip is destroyed first; without an item or fonts that is all.
\* generate() may throw, and so does app.stage.addChild once the application
\* is destroyed (its stage is null): the new container is then not attached.
TryBuildLore(tooltip, children, item, fonts, appDestroyed) ==
  LET detached == IF tooltip # Null /\ tooltip.attached THEN children - 1 ELSE children IN
  IF item = Null \/ fonts = Null
    THEN [builtTooltip |-> Destroy(tooltip), stage |-> detached]
  ELSE LET font == generate(fonts.data, [n \in 1..3 |-> [width |-> PAGE_WIDTH]])
           built == buildTooltip(LORE_LINES) IN
       IF "error" \in DOMAIN font \/ appDestroyed
         THEN [builtTooltip |-> Container(FALSE, FALSE), stage |-> detached]
         ELSE [builtTooltip |-> Container(TRUE, FALSE), stage |-> detached + 1]

\* The number of tryLoad... calls that may be suspended at once.
MaxLoads == 2

\* onEditedItem (lines 315-320)
onEditedItem(item) ==
  /\ ~destroyed
  /\ ItemLoadStarts(item, _textures) => Len(loads) < MaxLoads
  /\ _editedItem' = item
  /\ TryLoadEditedTexture(item, _textures, loads)
  /\ LET lore == TryBuildLore(builtTooltip, stage, item, _fonts, destroyed) IN
       /\ builtTooltip' = lore.builtTooltip
       /\ stage' = lore.stage
  /\ UNCHANGED <<_textures, _resources, _fonts, uGlintSampler, destroyed>>

OnEditedItem(item) == onEditedItem(item) /\ PreviewStep

\* onTextures (lines 303-306)
onTextures(textures) ==
  /\ ~destroyed
  /\ ItemLoadStarts(_editedItem, textures) => Len(loads) < MaxLoads
  /\ _textures' = textures
  /\ TryLoadEditedTexture(_editedItem, textures, loads)
  /\ UNCHANGED <<_editedItem, _resources, _fonts, builtTooltip, uGlintSampler,
                 stage, destroyed>>

OnTextures(textures) == onTextures(textures) /\ PreviewStep

\* onResources (lines 308-313)
onResources(cache) ==
  LET glint == GlintDecision(_editedItem, cache)
      started == (IF glint = "load" THEN << GlintLoad(_editedItem, cache) >> ELSE << >>)
                   \o (IF FontsLoadStarts(_editedItem, cache)
                         THEN << FontsLoad(_editedItem, cache) >> ELSE << >>) IN
  /\ ~destroyed
  /\ Len(loads) + Len(started) <= MaxLoads
  /\ _resources' = cache
  /\ loads' = loads \o started
  /\ uniforms' = IF glint = "clear" THEN [uniforms EXCEPT !.isEnchanted = 0] ELSE uniforms
  /\ uGlintSampler' = IF glint = "clear" THEN EMPTY ELSE uGlintSampler
  /\ UNCHANGED <<_editedItem, _textures, _fonts, builtTooltip, uItemSampler,
                 stage, destroyed>>

OnResources(cache) == onResources(cache) /\ PreviewStep

\* loads without its i-th element.
Without(pending, i) == SubSeq(pending, 1, i - 1) \o SubSeq(pending, i + 1, Len(pending))

\* loadTextureResource of a suspended tryLoadEditedTexture resolves.  The
\* rest of it (lines 217-220) binds the texture and, for an enchanted item,
\* calls tryLoadGlintTexture; isItemEnchanted(null) throws.
ItemLoadDone(i) ==
  LET glint == IF _editedItem = Null THEN "none"
               ELSE IF ~isItemEnchanted(_editedItem) THEN "none"
               ELSE GlintDecision(_editedItem, _resources) IN
  /\ uItemSampler' = Loaded(loads[i].data)
  /\ uniforms' = [uniforms EXCEPT !.hasTexture = 1,
                                  !.isEnchanted = IF glint = "clear" THEN 0 ELSE @]
  /\ uGlintSampler' = IF glint = "clear" THEN EMPTY ELSE uGlintSampler
  /\ loads' = Without(loads, i) \o
                (IF glint = "load" THEN << GlintLoad(_editedItem, _resources) >> ELSE << >>)
  /\ UNCHANGED <<_fonts, builtTooltip, stage>>

\* loadTextureResource of a suspended tryLoadGlintTexture resolves (lines 236-237).
GlintLoadDone(i) ==
  /\ uGlintSampler' = Loaded(loads[i].data)
  /\ uniforms' = [uniforms EXCEPT !.isEnchanted = 1]
  /\ loads' = Without(loads, i)
  /\ UNCHANGED <<uItemSampler, _fonts, builtTooltip, stage>>

\* A page of a suspended tryLoadFonts is loaded (lines 254-256): the next page
\* is read from _resources as it is now, under the key computed at the
\* start, and its load begins; a key that is gone ends the call.
FontPageDone(i) ==
  LET l == loads[i]
      key == hashResource(l.version, FontPages[l.page + 1]) IN
  /\ l.page < Len(FontPages)
  /\ loads' = Without(loads, i) \o
                (IF CacheHas(_resources, key)
                   THEN << [l EXCEPT !.page = @ + 1,
                                     !.pages = Append(@, Loaded(l.data)),
                                     !.data = CacheGet(_resources, key)] >>
                   ELSE << >>)
  /\ UNCHANGED <<uItemSampler, uGlintSampler, uniforms, _fonts, builtTooltip, stage>>

\* The last page of a suspended tryLoadFonts is loaded (lines 256-268): the
\* manifest is read from _resources and parsed, _fonts is set and
\* tryBuildLore called; a manifest that is gone or is no JSON ends the call.
FontsReady(i) ==
  LET l == loads[i]
      key == hashResource(l.version, FONT_DATA_JSON)
      parses == CacheHas(_resources, key) /\ IsManifest(CacheGet(_resources, key))
      fonts == [ascii |-> l.pages[1], accented |-> l.pages[2],
                nonlatin_european |-> Loaded(l.data),
                data |-> ManifestOf(CacheGet(_resources, key))]
      lore == TryBuildLore(builtTooltip, stage, _editedItem, fonts, destroyed) IN
  /\ l.page = Len(FontPages)
  /\ loads' = Without(loads, i)
  /\ IF parses
       THEN /\ _fonts' = fonts
            /\ builtTooltip' = lore.builtTooltip
            /\ stage' = lore.stage
       ELSE UNCHANGED <<_fonts, builtTooltip, stage>>
  /\ UNCHANGED <<uItemSampler, uGlintSampler, uniforms>>

\* The load awaited by the i-th suspended call resolves.
LoadDone(i) ==
  /\ i <= Len(loads)
  /\ CASE loads[i].fn = "item" -> ItemLoadDone(i)
       [] loads[i].fn = "glint" -> GlintLoadDone(i)
       [] loads[i].fn = "fonts" -> FontPageDone(i) \/ FontsReady(i)
  /\ UNCHANGED <<_editedItem, _textures, _resources, destroyed>>
  /\ PreviewStep

\* The effects of ItemPreview on [itemTextures], [resources] and [editedItem]
\* (part_003, lines 126-139) for the state the listener set on message m; each
\* returns when itemPreview.current is not set.  setEditedItem(null) on a
\* null editedItem renders nothing anew.
ItemPreviewEffects(m) ==
  LET ty == MessageType(m) IN
  IF ~mounted \/ ~IsServerMessage(m)
    THEN UNCHANGED previewVars
    ELSE CASE ty = "item-texture" -> onTextures(itemTextures')
           [] ty = "resource" -> onResources(resources')
           [] ty = "update-item" /\ ~(editedItem = Null /\ editedItem' = Null) ->
                onEditedItem(editedItem')
           [] OTHER -> UNCHANGED previewVars

\* A message of the host reaches the rendering side: the listener of App, then
\* the effects of App and of ItemPreview.
ViewReceive(m) ==
  /\ AppReceive(m)
  /\ ItemPreviewEffects(m)
  /\ ClosedChannelStays
  /\ UNCHANGED mounted

\* itemIdChanged (part_003, lines 283-289) with the effects run by the state
\* it sets: the user picks another id for the edited item.
itemIdChanged(itemId) ==
  /\ editedItem # Null
  /\ editedItem' = [editedItem EXCEPT !.id = itemId]
  /\ viewPosted' = ItemEffect(editedItem, editedItem')
                      \o VersionEffect(editedItem, editedItem')
  /\ IF mounted THEN onEditedItem(editedItem') ELSE UNCHANGED previewVars
  /\ viewIn' = NoInput
  /\ hostIn' = NoInput
  /\ posted' = << >>
  /\ settled' = NoSettle
  /\ didChange' = FALSE
  /\ ClosedChannelStays
  /\ UNCHANGED <<minecraftVersions, itemTextures, resources, itemComponents,
                 hostVars, file, fnVars, mounted>>

\* initItemPreview resolves and init stores the context (part_003, line 116);
\* no effect of ItemPreview depends on it.
InitItemPreviewDone ==
  /\ ~mounted
  /\ ~destroyed
  /\ mounted' = TRUE
  /\ UNCHANGED previewVars
  /\ OutsidePreview

\* dispose (lines 299-301): app.destroy() destroys the stage, whose children
\* are removed from it.  The cleanup of ItemPreview that calls it clears
\* itemPreview.current in the same turn (part_003, lines 121-124).
Dispose ==
  /\ ~destroyed
  /\ destroyed' = TRUE
  /\ stage' = 0
  /\ builtTooltip' = IF builtTooltip = Null THEN Null
                      ELSE [builtTooltip EXCEPT !.attached = FALSE]
  /\ mounted' = FALSE
  /\ UNCHANGED <<_editedItem, _textures, _resources, _fonts, uniforms, uItemSampler,
                 uGlintSampler, loads>>
  /\ OutsidePreview

-----------------------------------------------------------------------------
(* The document file: saveCustomDocumentAs and ItemEditorDocument.init. *)

\* A JSON text is the sequence of its characters; a run of letters that holds
\* no quote, backslash or control character is written as one token.

\* The characters of a string between its quotes, escaped as JSON.stringify
\* escapes them; EscapeNothing leaves them as they are.
EscapeNothing(c) == << c >>
Escape(c) ==
  CASE c = "\"" -> << "\\", "\"" >>
    [] c = "\\" -> << "\\", "\\" >>
    [] c = "\n" -> << "\\", "n" >>
    [] OTHER -> << c >>

RECURSIVE Quoted(_)
Quoted(str) == IF str = << >> THEN << >> ELSE Escape(Head(str)) \o Quoted(Tail(str))

\* The decimal digits of the counts the documents hold.
NumberText(n) ==
  CASE n = 0 -> "0" [] n = 1 -> "1" [] n = 2 -> "2" [] n = 64 -> "64"
NumberTexts == {"0", "1", "2", "64"}
NumberOf(text) ==
  CASE text = "0" -> 0 [] text = "1" -> 1 [] text = "2" -> 2 [] text = "64" -> 64

\* JSON.stringify of a JSON value: no white space, the keys in order.
RECURSIVE JSONstringify(_), StringifyMembers(_)
JSONstringify(j) ==
  CASE j.t = "null" -> << "null" >>
    [] j.t = "num" -> << NumberText(j.n) >>
    [] j.t = "str" -> << "\"" >> \o Quoted(j.s) \o << "\"" >>
    [] j.t = "obj" -> << "{" >> \o StringifyMembers(j.kv) \o << "}" >>
StringifyMembers(kv) ==
  IF kv = << >> THEN << >>
  ELSE << "\"" >> \o Quoted(<< kv[1][1] >>) \o << "\"", ":" >> \o JSONstringify(kv[1][2])
         \o (IF Len(kv) = 1 THEN << >> ELSE << "," >> \o StringifyMembers(Tail(kv)))

\* A step of the parser: it fails, or yields a value and the place after it.
ParseFails == [ok |-> FALSE]
Parsed(value, next) == [ok |-> TRUE, value |-> value, next |-> next]

\* The string whose opening quote has been read: up to the closing quote,
\* with the escapes undone; a raw newline or an unknown escape is an error.
RECURSIVE ScanString(_, _, _)
ScanString(text, i, str) ==
  IF i > Len(text) THEN ParseFails
  ELSE IF text[i] = "\"" THEN Parsed(str, i + 1)
  ELSE IF text[i] = "\n" THEN ParseFails
  ELSE IF text[i] = "\\"
    THEN IF i + 1 > Len(text) THEN ParseFails
         ELSE IF text[i + 1] = "\"" THEN ScanString(text, i + 2, Append(str, "\""))
         ELSE IF text[i + 1] = "\\" THEN ScanString(text, i + 2, Append(str, "\\"))
         ELSE IF text[i + 1] = "n" THEN ScanString(text, i + 2, Append(str, "\n"))
         ELSE ParseFails
  ELSE ScanString(text, i + 1, Append(str, text[i]))

\* JSON.parse of a value at place i, and of the members of an object whose
\* brace has been read; a key met again replaces its value.
RECURSIVE ParseValue(_, _), ParseMembers(_, _, _)
ParseValue(text, i) ==
  IF i > Len(text) THEN ParseFails
  ELSE IF text[i] = "null" THEN Parsed(JNull, i + 1)
  ELSE IF text[i] \in NumberTexts THEN Parsed(JNum(NumberOf(text[i])), i + 1)
  ELSE IF text[i] = "\""
    THEN LET str == ScanString(text, i + 1, << >>) IN
         IF str.ok THEN Parsed(JStr(str.value), str.next) ELSE ParseFails
  ELSE IF text[i] = "{"
    THEN IF i + 1 <= Len(text) /\ text[i + 1] = "}"
           THEN Parsed(JObj(<< >>), i + 2)
           ELSE ParseMembers(text, i + 1, << >>)
  ELSE ParseFails
ParseMembers(text, i, kv) ==
  IF i > Len(text) \/ text[i] # "\"" THEN ParseFails
  ELSE LET key == ScanString(text, i + 1, << >>) IN
       IF ~key.ok \/ Len(key.value) # 1 \/ key.next > Len(text) \/ text[key.next] # ":"
         THEN ParseFails
       ELSE LET member == ParseValue(text, key.next + 1) IN
            IF ~member.ok \/ member.next > Len(text) THEN ParseFails
            ELSE LET entries ==
                       IF \E n \in 1..Len(kv) : kv[n][1] = key.value[1]
                         THEN [n \in 1..Len(kv) |->
                                 IF kv[n][1] = key.value[1]
                                   THEN << key.value[1], member.value >> ELSE kv[n]]
                         ELSE Append(kv, << key.value[1], member.value >>) IN
                 IF text[member.next] = "}" THEN Parsed(JObj(entries), member.next + 1)
                 ELSE IF text[member.next] = ","
                   THEN ParseMembers(text, member.next + 1, entries)
                 ELSE ParseFails

\* JSON.parse: the value of the whole text, or a SyntaxError.
JSONparse(text) ==
  LET whole == ParseValue(text, 1) IN
  IF whole.ok /\ whole.next = Len(text) + 1
    THEN Returned(whole.value) ELSE Thrown("SyntaxError")

\* new TextEncoder().encode and new TextDecoder().decode
Encode(text) == [utf8 |-> text]
Decode(bytes) == bytes.utf8

\* JSON.stringify(document.item)
StringifyItem(item) == JSONstringify(IF item = Null THEN JNull ELSE ItemJson(item))

\* ItemEditorDocument.init (lines 43-56) on the bytes read: the item and the
\* hash of the document opened, both null when the text is not an item.
DocAfterInit(bytes) ==
  LET data == JSONparse(Decode(bytes)) IN
  IF "value" \in DOMAIN data /\ IsItem(data.value)
    THEN [item |-> ParseItem(data.value), hash |-> hashItem(ParseItem(data.value))]
    ELSE [item |-> Null, hash |-> Null]

\* A step of save or open: the host and the rendering side stay as they are.
FileStep ==
  UNCHANGED <<hostVars, hostOut, viewVars, viewIn, viewPosted, previewVars,
              mounted, channel>>

\* saveCustomDocumentAs (lines 264-270), with the item it is called for.
SaveCustomDocumentAs ==
  /\ file' = Encode(StringifyItem(docItem))
  /\ arg' = [saved |-> docItem]
  /\ ret' = NoResult
  /\ FileStep

\* openCustomDocument (lines 285-291): a new document, initialised from the file.
OpenCustomDocument ==
  /\ file # NoFile
  /\ ret' = Returned(DocAfterInit(file))
  /\ UNCHANGED <<file, arg>>
  /\ FileStep

-----------------------------------------------------------------------------
(* Items, documents and messages the runs draw from. *)

Item(v, id) == [minecraftVersion |-> v, id |-> id, count |-> 1, components |-> << >>]

Apple == <<"minecraft", ":", "apple">>
Stone == <<"minecraft", ":", "stone">>
Log == <<"log">>
Barrier == <<"minecraft", ":", "barrier">>
Ghost == <<"ghost">>

\* Values that match no message shape.
JunkMessages ==
  { JNull,
    JStr(<<"ready">>),
    JObj(<< <<"type", JStr(<<"bogus">>)>> >>),
    JObj(<< <<"item", ItemJson(Item(V1, Apple))>> >>),
    JObj(<< <<"type", JStr(<<"get-item-texture">>)>> >>),
    JObj(<< <<"type", JStr(<<"get-resource">>)>>, <<"version", JNum(1)>>,
            <<"resource", JStr(JarGlintTexture)>> >>),
    JObj(<< <<"type", JStr(<<"update-versions">>)>>, <<"versions", JStr(V1)>> >>),
    JObj(<< <<"type", JStr(<<"update-item">>)>>,
            <<"item", JObj(<< <<"id", JStr(Apple)>> >>)>> >>) }


\* The state after construction: the document holds what init parsed from the
\* file (null for an empty file), the disk holds what earlier sessions left.
StartOn(doc, bundles, wire) ==
  /\ docItem = doc
  /\ docHash = IF doc = Null THEN Null ELSE hashItem(doc)
  /\ runningUnpackTasks = [v \in Versions |-> 0]
  /\ tasks = [t \in TaskIds |-> NoTask]
  /\ settled = NoSettle
  /\ disk = bundles
  /\ handlers = [h \in Slots |-> Idle]
  /\ hostIn = NoInput
  /\ posted = << >>
  /\ editedItem = Null
  /\ minecraftVersions = << >>
  /\ itemTextures = << >>
  /\ resources = << >>
  /\ itemComponents = << >>
  /\ viewIn = NoInput
  /\ viewPosted = << >>
  /\ file = NoFile
  /\ _editedItem = Null
  /\ _textures = << >>
  /\ _resources = << >>
  /\ _fonts = Null
  /\ builtTooltip = Null
  /\ uniforms = [hasTexture |-> 0, isEnchanted |-> 0]
  /\ uItemSampler = EMPTY
  /\ uGlintSampler = EMPTY
  /\ loads = << >>
  /\ stage = 0
  /\ destroyed = FALSE
  /\ mounted = FALSE
  /\ didChange = FALSE
  /\ channel = wire
  /\ ret = NoResult

StartQuiet(doc, bundles) == StartOn(doc, bundles, Closed)

\* The same, no function being under check.
Start(doc, bundles) == StartQuiet(doc, bundles) /\ arg = NoCall

\* A function is applied to the input: nothing else changes.
Applied(result) ==
  /\ ret = NoResult
  /\ ret' = result
  /\ UNCHANGED <<hostVars, hostOut, viewVars, viewIn, viewPosted, file, previewVars,
                 mounted, channel, arg>>

HandlerStep ==
  \E h \in Slots :
    \/ EnsureResume(h)
    \/ Resolve(h)
    \/ ModelRead(h)
    \/ ReadFile(h)

ComponentsStep == \E h \in Slots : ReadComponents(h)

\* The next awaited operation of task t returns, one way or the other.
TaskStepOf(t) ==
  \/ TaskMkdir(t)
  \/ TaskMkdirFails(t)
  \/ TaskExtract(t)
  \/ TaskExtractFails(t)
  \/ TaskSpawn(t)
  \/ TaskSpawnFails(t)
  \/ \E code \in {0, 1} : TaskExit(t, code)

TaskStep == \E t \in TaskIds : TaskStepOf(t)

\* Unpacking: nothing is unpacked yet, and the rendering side asks for an item
\* texture of one version and a resource of the other.
UnpackInputs ==
  { GetItemTextureMsg(Item(V1, Apple)),
    GetResourceMsg(V2, JarAsciiPage) }

Init == Start(Null, [v \in Versions |-> {}])

Next ==
  \/ \E m \in UnpackInputs : HostReceive(m)
  \/ HandlerStep
  \/ TaskStep

Spec == Init /\ [][Next]_vars

\* The same with every file-system operation of a task returning and a
\* started generator exiting: a step of a task that can be taken is taken.
SpecFair == Spec /\ \A t \in TaskIds : WF_vars(TaskStepOf(t))

\* Answering: version 1.21 was unpacked by an earlier session (completely, or
\* without the generator's reports, or with nothing extracted), and the
\* rendering side asks for textures, a resource and the document, and edits it.
WarmBundles == {FullBundle, FullBundle \ {"reports"}, {"dir"}}

WarmInputs ==
  { GetItemTextureMsg(Item(V1, Barrier)),
    GetItemTextureMsg(Item(V1, Stone)),
    GetResourceMsg(V1, JarGlintTexture),
    ReadyMsg,
    UpdateItemMsg(Item(V1, Apple)),
    UpdateItemMsg(Item(<< >>, Apple)) }

InitWarm == \E b \in WarmBundles : Start(Null, [v \in Versions |-> IF v = V1 THEN b ELSE {}])

NextWarm ==
  \/ \E m \in WarmInputs : HostReceive(m)
  \/ HandlerStep
  \/ ComponentsStep

SpecWarm == InitWarm /\ [][NextWarm]_vars

\* Validation: both sides receive messages of every shape and values of none.
ServerInputs ==
  { UpdateItemMsg(Null),
    UpdateItemMsg(Item(V1, Apple)),
    UpdateVersionsMsg(VersionList),
    ItemTextureMsg(Item(V1, Apple), FileContent(V1, ItemSpritePath(<<"apple">>))),
    ResourceMsg(V1, JarGlintTexture, FileContent(V1, JarGlintTexture)),
    UpdateItemComponentsMsg(ComponentNames(V1)) }

ClientInputs == {ReadyMsg, UpdateItemMsg(Item(V1, Apple))}

InitDrop == Start(Null, [v \in Versions |-> IF v = V1 THEN FullBundle ELSE {}])

NextDrop ==
  \/ \E m \in ClientInputs \cup JunkMessages : HostReceive(m)
  \/ ComponentsStep
  \/ \E m \in ServerInputs \cup JunkMessages : ViewReceive(m)

SpecDrop == InitDrop /\ [][NextDrop]_vars

\* The caches of the rendering side: textures and resources arrive for the
\* edited item and for others, for its version and for another, a second
\* time with another content, and with a field missing, while the edited item
\* changes.
ViewInputs ==
  { UpdateItemMsg(Null),
    UpdateItemMsg(Item(V1, Apple)),
    UpdateItemMsg(Item(V2, Stone)),
    ItemTextureMsg(Item(V1, Apple), FileContent(V1, ItemSpritePath(<<"apple">>))),
    ItemTextureMsg(Item(V1, Apple), FileContent(V2, ItemSpritePath(<<"apple">>))),
    ItemTextureMsg(Item(V1, Stone), FileContent(V1, BlockTexturePath(<<"stone">>))),
    ResourceMsg(V1, JarGlintTexture, FileContent(V1, JarGlintTexture)),
    ResourceMsg(V2, JarGlintTexture, FileContent(V2, JarGlintTexture)),
    ResourceMsg(V1, JarAsciiPage, FileContent(V1, JarAsciiPage)),
    JObj(<< <<"type", JStr(<<"item-texture">>)>>,
            <<"item", ItemJson(Item(V2, Apple))>> >>),
    JObj(<< <<"type", JStr(<<"resource">>)>>,
            <<"version", JStr(V2)>>,
            <<"texture", JStr(FileContent(V2, JarAsciiPage))>> >>) }

InitView == Start(Null, [v \in Versions |-> {}])

NextView == \E m \in ViewInputs : ViewReceive(m)

SpecView == InitView /\ [][NextView]_vars

\* The block-model fallback of getUnpackedItemResource on its own: the
\* textures of a model of up to MaxSlots slots, in the order they are declared.
MaxSlots == 3
SlotNames == {"side", "all", "particle", "0"}
TextureRefs ==
  { <<"block", "/", "foo">>,
    <<"minecraft", ":", "block", "/", "bar">>,
    <<"block", "/", "baz">> }

Models ==
  UNION {{t \in [1..n -> SlotNames \X TextureRefs] :
            \A i, j \in 1..n : i # j => t[i][1] # t[j][1]} : n \in 0..MaxSlots}

\* Lines 242-248 applied to the parsed model.
ResolveModel ==
  Applied(IF ModelThrows(arg) THEN Thrown("TypeError") ELSE Returned(TexturePath(arg)))

InitModel ==
  /\ StartQuiet(Null, [v \in Versions |-> {}])
  /\ arg \in Models

NextModel == ResolveModel

SpecModel == InitModel /\ [][NextModel]_vars

\* getUnpackedItemResource against a disk that does not change while it runs:
\* the path it returns or the error it rejects with (line 233: the sprite;
\* line 235: readFile of a missing model rejects with the ENOENT error of fs;
\* lines 245-248: see ModelThrows).
getUnpackedItemResource(version, id) ==
  LET name == StripIdNamespace(id) IN
  IF TakesSprite(version, name) THEN Returned(ItemSpritePath(name))
  ELSE IF ~FileExists(version, BlockModelPath(name)) THEN Thrown("ENOENT")
  ELSE IF ModelThrows(JarBlockModel(name)) THEN Thrown("TypeError")
  ELSE Returned(ModelDerivedPath(name))

\* The bundles unpackVersion can leave on disk: nothing, or the directory with
\* the parts extracted before it stopped.
LeftBundles ==
  { {}, {"dir"}, {"dir", "textures"}, {"dir", "textures", "models"},
    {"dir", "textures", "models", "font"}, FullBundle }

ItemIds == {Apple, Stone, Log, Barrier, Ghost, <<"apple">>}

ResolveItem == Applied(getUnpackedItemResource(arg.version, arg.id))

InitResolve ==
  /\ \E bundles \in [Versions -> LeftBundles] : StartQuiet(Null, bundles)
  /\ arg \in [version : Versions, id : ItemIds]

NextResolve == ResolveItem

SpecResolve == InitResolve /\ [][NextResolve]_vars

\* isItemEnchanted on its own, applied to an item whose components hold any
\* of the texts, or nothing, under the two keys it reads.
SnbtTexts ==
  { <<"1", "b">>, <<"true">>, <<"0", "b">>, <<"false">>, <<"1">>,
    <<"{", "}">>, <<"{", "sharpness", ":", "1", "}">>, <<"[", "]">>, <<"[", "1", "]">>,
    <<"x", "{">>, <<"1", "\n", "b">>, <<"{", "\n", "sharpness", ":", "1", "}">> }

OptionalTexts == { << >> } \cup { <<t>> : t \in SnbtTexts }

ComponentsOf(override, enchantments) ==
  (IF override = << >> THEN << >> ELSE << <<GLINT_OVERRIDE, override[1]>> >>)
    \o (IF enchantments = << >> THEN << >> ELSE << <<ENCHANTMENTS, enchantments[1]>> >>)

EnchantItems ==
  { [Item(V1, Apple) EXCEPT !.components = ComponentsOf(o, e)] :
      o \in OptionalTexts, e \in OptionalTexts }

CheckEnchanted == Applied(Returned(isItemEnchanted(arg.item)))

InitEnchanted ==
  /\ StartQuiet(Null, [v \in Versions |-> {}])
  /\ arg \in [item : EnchantItems]

NextEnchanted == CheckEnchanted

SpecEnchanted == InitEnchanted /\ [][NextEnchanted]_vars

\* buildTooltip on its own, applied to up to MaxLines lines.
MaxLines == 2

A == <<"a">>
TallText == <<"a", "\n", "b">>

TooltipTexts ==
  { MString(A), MString(TallText), MString(<< >>), MString(<<"a", "b", "c">>),
    MArray(<< >>), MArray(<< MString(TallText), MString(A) >>),
    MArray(<< MString(A), MString(TallText) >>),
    MObject(TallText, << MString(A) >>), MObject(A, << MString(TallText) >>),
    MObject(<<"a", "b">>,
            << MObject(A, << MString(<<"a", "\n", "b", "\n", "c">>) >>), MString(A) >>) }

TooltipLines ==
  UNION { [1..n -> TooltipTexts] : n \in 0..MaxLines }

BuildTooltip == Applied(Returned(buildTooltip(arg.lines)))

InitTooltip ==
  /\ StartQuiet(Null, [v \in Versions |-> {}])
  /\ arg \in [lines : TooltipLines]

NextTooltip == BuildTooltip

SpecTooltip == InitTooltip /\ [][NextTooltip]_vars

\* buildTooltip applied to lines whose records set colours: a CSS name, the
\* empty string, a key of DEFAULT_TEXT_STYLE, or none.
Red == ColorString("red")
Gold == ColorString("gold")

ColourTexts ==
  { MString(A),
    MColored(A, Red, << >>),
    MColored(A, Red, << MString(A) >>),
    MColored(A, Red, << MObject(A, << MString(A) >>), MArray(<< MString(A) >>) >>),
    MColored(A, Red, << MColored(A, Gold, << MString(A) >>), MString(A) >>),
    MObject(A, << MColored(A, Gold, << >>), MString(A) >>),
    MArray(<< MColored(A, Gold, << MString(A) >>), MString(A) >>),
    MColored(A, ColorString(""), << MString(A) >>),
    MColored(A, Red, << MColored(A, ColorString(""), << MString(A) >>) >>),
    MColored(A, ColorString("fontSize"), << MString(A) >>) }

ColourLines ==
  UNION { [1..n -> ColourTexts] : n \in 0..MaxLines }

InitColour ==
  /\ StartQuiet(Null, [v \in Versions |-> {}])
  /\ arg \in [lines : ColourLines]

NextColour == BuildTooltip

SpecColour == InitColour /\ [][NextColour]_vars

\* MinecraftBitmapFont.generate on its own, applied to manifests of up to
\* MaxProviders providers and to pages 128 or 130 wide.
MaxProviders == 2
MaxReleases == 2

Row16 == <<"a", "b", "c", "a", "b", "c", "a", "b", "c", "a", "b", "c", "a", "b", "c", "d">>

FontProviders ==
  { Provider("minecraft:font/ascii.png", NoHeight, << <<"a", "b">>, <<"c", "a", "d">> >>),
    Provider("minecraft:font/ascii.png", NoHeight, << Row16 >>),
    Provider("minecraft:font/accented.png", Height(12), << <<"b", "a", "b">>, << >>, <<"d">> >>),
    Provider("minecraft:font/accented.png", NoHeight, << <<"c">>, Row16 >>),
    Provider("minecraft:font/nonlatin_european.png", Height(0), << <<"a", "c">>, <<"b">> >>),
    Provider("minecraft:font/nonlatin_european.png", Height(12), << >>),
    Provider("minecraft:font/other.png", NoHeight, << <<"a">> >>),
    Provider("minecraft:font/other.png", NoHeight, << >>) }

FontManifests ==
  { [providers |-> ps] : ps \in UNION { [1..n -> FontProviders] : n \in 0..MaxProviders } }

PageWidths == {128, 130}
PageTextures == [1..3 -> [width : PageWidths]]

Generate == Applied(generate(arg.data, arg.textures))

InitFont ==
  /\ StartQuiet(Null, [v \in Versions |-> {}])
  /\ arg \in [data : FontManifests, textures : PageTextures]

NextFont == Generate

SpecFont == InitFont /\ [][NextFont]_vars

\* The preview context on its own: the calls the ItemPreview effects make, in
\* any order, and the texture loads they start, completing in any order.
EnchantedApple ==
  [Item(V1, Apple) EXCEPT
     !.components = << <<ENCHANTMENTS, <<"{", "sharpness", ":", "1", "}">> >> >>]

PreviewItems == {Null, Item(V1, Apple), Item(V1, Stone), EnchantedApple}

AppleTexture == <<hashItemTexture(Item(V1, Apple)), FileContent(V1, ItemSpritePath(<<"apple">>))>>
StoneTexture == <<hashItemTexture(Item(V1, Stone)), FileContent(V1, BlockTexturePath(<<"stone">>))>>
GlintResource == <<hashResource(V1, GLINT_TEXTURE_PATH), FileContent(V1, JarGlintTexture)>>

PreviewTextures == { << >>, <<AppleTexture>>, <<AppleTexture, StoneTexture>> }
PreviewResources == { << >>, <<GlintResource>> }

InitPreview == Start(Null, [v \in Versions |-> {}])

NextPreview ==
  \/ \E item \in PreviewItems : OnEditedItem(item)
  \/ \E textures \in PreviewTextures : OnTextures(textures)
  \/ \E cache \in PreviewResources : OnResources(cache)
  \/ \E i \in 1..MaxLoads : LoadDone(i)

SpecPreview == InitPreview /\ [][NextPreview]_vars

\* The preview context with the fonts of two versions, up to its disposal.
FontResources(v) ==
  << <<hashResource(v, ASCII_FONT_PATH), FileContent(v, ASCII_FONT_PATH)>>,
     <<hashResource(v, ACCENTED_FONT_PATH), FileContent(v, ACCENTED_FONT_PATH)>>,
     <<hashResource(v, NONLATIN_EUROPEAN_FONT_PATH), FileContent(v, NONLATIN_EUROPEAN_FONT_PATH)>>,
     <<hashResource(v, FONT_DATA_JSON), FileContent(v, FONT_DATA_JSON)>> >>

LoreItems == {Null, Item(V1, Apple), Item(V1, Stone), Item(V2, Apple)}
LoreTextures == { << >>, <<AppleTexture>> }
LoreResources ==
  { << >>, FontResources(V1), FontResources(V2), FontResources(V1) \o FontResources(V2) }

InitLore == Start(Null, [v \in Versions |-> {}])

NextLore ==
  \/ \E item \in LoreItems : OnEditedItem(item)
  \/ \E textures \in LoreTextures : OnTextures(textures)
  \/ \E cache \in LoreResources : OnResources(cache)
  \/ \E i \in 1..MaxLoads : LoadDone(i)
  \/ Dispose

SpecLore == InitLore /\ [][NextLore]_vars

\* The preview context editing one item whose components hold any of the
\* texts under the two keys.
InitGlint ==
  /\ StartQuiet(Null, [v \in Versions |-> {}])
  /\ arg \in [item : EnchantItems]

NextGlint ==
  \/ OnEditedItem(arg.item)
  \/ \E textures \in {<< >>, <<AppleTexture>>} : OnTextures(textures)
  \/ \E cache \in {<< >>, <<GlintResource>>} : OnResources(cache)
  \/ \E i \in 1..MaxLoads : LoadDone(i)

SpecGlint == InitGlint /\ [][NextGlint]_vars

\* The document: the rendering side edits it, it is saved and the file opened.
NamedSword ==
  [minecraftVersion |-> V1, id |-> <<"minecraft", ":", "sword">>, count |-> 64,
   components |->
     << << "minecraft:custom_name", <<"{", "\"", "text", "\"", ":", "\"", "a", "\\", "n", "b", "\"", "}">> >>,
        << ENCHANTMENTS, <<"{", "\n", "sharpness", ":", "1", "}">> >> >>]

DocItems ==
  { Item(V1, Apple),
    Item(V2, Stone),
    Item(<< >>, << >>),
    [Item(V1, Apple) EXCEPT !.count = 0],
    [Item(V1, Apple) EXCEPT !.components = << << GLINT_OVERRIDE, <<"1", "b">> >> >>],
    [Item(V1, Apple) EXCEPT !.id = <<"null">>, !.count = 2,
                            !.components = << << "0", << >> >> >>],
    EnchantedApple,
    NamedSword }

InitDocument == Start(Null, [v \in Versions |-> {}])

NextDocument ==
  \/ \E item \in DocItems : HostReceive(UpdateItemMsg(item))
  \/ SaveCustomDocumentAs
  \/ OpenCustomDocument

SpecDocument == InitDocument /\ [][NextDocument]_vars

\* A session without edits: a document is opened (an item, or a text that is
\* none), version 1.21 is unpacked, App mounts and posts ready (part_003, line
\* 229); from then on each side is handed what the other posted, in the
\* order of posting.
SessionDocs == {Null, Item(V1, Apple), Item(V1, Ghost)}

\* The host's listener is handed the oldest message of the rendering side.
HostTakes ==
  /\ channel.toHost # << >>
  /\ HostReceive(Head(channel.toHost))
  /\ channel' = [channel EXCEPT !.toHost = Tail(@), !.toView = @ \o posted']

\* A suspended handler of the host goes on.
HostResumes ==
  /\ HandlerStep \/ ComponentsStep
  /\ channel' = [channel EXCEPT !.toView = @ \o posted']

\* The listener of App is handed the oldest message of the host.
ViewTakes ==
  /\ channel.toView # << >>
  /\ ViewReceive(Head(channel.toView))
  /\ channel' = [channel EXCEPT !.toView = Tail(@), !.toHost = @ \o viewPosted']

InitSession ==
  /\ \E doc \in SessionDocs :
       StartOn(doc, [v \in Versions |-> IF v = V1 THEN FullBundle ELSE {}],
               Connected(<< ReadyMsg >>))
  /\ arg = NoCall

NextSession ==
  \/ HostTakes
  \/ HostResumes
  \/ ViewTakes

SpecSession == InitSession /\ [][NextSession]_vars

\* Nothing is under way: no message, no suspended handler.
Quiet ==
  /\ channel.toHost = << >>
  /\ channel.toView = << >>
  /\ \A h \in Slots : handlers[h].pc = "idle"

\* The same session with a user who picks other ids, each time once the
\* exchange has come to rest.
EditIds == {Stone, Barrier}

UserEdits ==
  /\ Quiet
  /\ \E itemId \in EditIds : itemIdChanged(itemId)
  /\ channel' = [channel EXCEPT !.toHost = @ \o viewPosted']

InitEdit ==
  /\ \E doc \in {Null, Item(V1, Apple)} :
       StartOn(doc, [v \in Versions |-> IF v = V1 THEN FullBundle ELSE {}],
               Connected(<< ReadyMsg >>))
  /\ arg = NoCall

NextEdit ==
  \/ HostTakes
  \/ HostResumes
  \/ ViewTakes
  \/ UserEdits

SpecEdit == InitEdit /\ [][NextEdit]_vars

\* Mounting: App and ItemPreview are mounted and initItemPreview is under
\* way; the answers of the host come in before it resolves or after.
MountInputs ==
  { UpdateItemMsg(Item(V1, Apple)),
    UpdateItemMsg(Item(V1, Stone)),
    ItemTextureMsg(Item(V1, Apple), FileContent(V1, ItemSpritePath(<<"apple">>))),
    ResourceMsg(V1, JarGlintTexture, FileContent(V1, JarGlintTexture)),
    ResourceMsg(V1, JarAsciiPage, FileContent(V1, JarAsciiPage)) }

InitMount == Start(Null, [v \in Versions |-> {}])

NextMount ==
  \/ \E m \in MountInputs : ViewReceive(m)
  \/ InitItemPreviewDone
  \/ \E i \in 1..MaxLoads : LoadDone(i)

SpecMount == InitMount /\ [][NextMount]_vars

\* Resources: version 1.21 is unpacked and the host is asked for resources
\* by strings of every kind: a file of the bundle, the same with segments
\* that cancel, the bundle directory, a file outside, a version that is not
\* installed; and for the texture of an item.
ResourceInputs ==
  { GetItemTextureMsg(Item(V1, Stone)),
    GetResourceMsg(V1, JarGlintTexture),
    GetResourceMsg(V1, <<"font", "/", "..", "/", ".", "/">> \o JarAsciiPage),
    GetResourceMsg(V1, <<".">>),
    GetResourceMsg(V1, JarFromBundle(V1)),
    GetResourceMsg(<<"0.0">>, JarGlintTexture),
    GetResourceMsg(<<"..">>, JarGlintTexture) }

InitResource == Start(Null, [v \in Versions |-> IF v = V1 THEN FullBundle ELSE {}])

NextResource ==
  \/ \E m \in ResourceInputs : HostReceive(m)
  \/ HandlerStep

SpecResource == InitResource /\ [][NextResource]_vars

-----------------------------------------------------------------------------
(* The language server (src/src/languageServer.ts). *)

\* A release of the server's repository as the code reads it: tag_name,
\* prerelease, created_at, and whether its assets hold <tag_name>.zip.
Release(tag, pre, created, zip) ==
  [tag_name |-> tag, prerelease |-> pre, created_at |-> created, zip |-> zip]

\* The content of language-servers.json.
Info(tag) == [currentTag |-> tag]

\* getLatestLanguageServer (lines 24-41): of the releases marked prerelease
\* the one created last, the first listed of several created together (the
\* sort is stable); null when there is none.
getLatestLanguageServer(releases) ==
  LET pre == SelectSeq(releases, LAMBDA r : r.prerelease) IN
  IF pre = << >> THEN Null
  ELSE pre[CHOOSE i \in 1..Len(pre) :
             /\ \A j \in 1..Len(pre) : pre[j].created_at <= pre[i].created_at
             /\ \A j \in 1..(i - 1) : pre[j].created_at < pre[i].created_at]

\* ensureLanguageServerInstalled (lines 62-108) for a release, on the install
\* directories there are: without the zip asset it returns with nothing
\* done (line 73); else the directory of the tag is made, and the download
\* and the extraction go through or one of them throws.
ensureLanguageServerInstalled(release, dirs, download) ==
  IF ~release.zip THEN [dirs |-> dirs, thrown |-> FALSE]
  ELSE [dirs |-> dirs \cup {release.tag_name}, thrown |-> ~download]

\* loadLanguageServer (lines 130-165) on the info file, the install
\* directories, the releases listed and the fate of a download: what it
\* leaves of the first two, and the tag of the server the client is made
\* for (null for none); or the error it rejects with.  fs.promises.rm
\* without force rejects for a directory that is not there.
loadLanguageServer(installedInfo, dirs, releases, download) ==
  LET latest == getLatestLanguageServer(releases)
      upgrade == IF latest = Null THEN FALSE
                 ELSE IF installedInfo = Null THEN TRUE
                 ELSE installedInfo.currentTag # latest.tag_name
      ensured == ensureLanguageServerInstalled(latest, dirs, download)
      removes == installedInfo # Null
      kept == IF removes THEN ensured.dirs \ {installedInfo.currentTag} ELSE ensured.dirs
      after == IF upgrade THEN [info |-> Info(latest.tag_name), dirs |-> kept]
                          ELSE [info |-> installedInfo, dirs |-> dirs]
      serverTagName == IF upgrade THEN Info(latest.tag_name) ELSE installedInfo IN
  IF upgrade /\ ensured.thrown
    THEN [error |-> "Error", info |-> installedInfo, dirs |-> ensured.dirs]
  ELSE IF upgrade /\ removes /\ installedInfo.currentTag \notin ensured.dirs
    THEN [error |-> "ENOENT", info |-> installedInfo, dirs |-> ensured.dirs]
  ELSE [info |-> after.info, dirs |-> after.dirs,
        client |-> IF serverTagName = Null THEN Null
                   ELSE IF serverTagName.currentTag \in after.dirs THEN serverTagName
                   ELSE Null]

\* The extension starts: nothing is installed yet, or a server is and the
\* info file names it; the repository lists up to MaxReleases releases.
Tags == {"0.1", "0.2"}
Releases == {Release(tag, pre, created, zip) :
               tag \in Tags, pre \in BOOLEAN, created \in 1..2, zip \in BOOLEAN}
ReleaseLists == UNION {[1..n -> Releases] : n \in 0..MaxReleases}
Installs == {[info |-> Null, dirs |-> {}]} \cup {[info |-> Info(t), dirs |-> {t}] : t \in Tags}

LoadLanguageServer ==
  Applied(loadLanguageServer(arg.installed.info, arg.installed.dirs, arg.releases,
                             arg.download))

InitLanguageServer ==
  /\ StartQuiet(Null, [v \in Versions |-> {}])
  /\ arg \in [installed : Installs, releases : ReleaseLists, download : BOOLEAN]

NextLanguageServer == LoadLanguageServer

SpecLanguageServer == InitLanguageServer /\ [][NextLanguageServer]_vars

-----------------------------------------------------------------------------
(* Unpacking: ensureUnpackedVersion and unpackVersion. *)

\* C1 as the specification states it: a call to ensureUnpackedVersion(V) issued
\* while an unpack task for V is running (and resumed before that task
\* settles) returns that task: the caller leaves the call awaiting it.
C1_CallDuringTaskJoinsIt ==
  [][\A h \in Slots :
       (/\ handlers[h].pc = "ensure"
        /\ handlers[h].at.running
        /\ handlers'[h].pc # "ensure")
       => /\ handlers'[h].pc = "await"
          /\ handlers'[h].task \in RunningFor(handlers[h].version)]_vars

\* C2: in every reachable state at most one unpack task per version is
\* unsettled, and it is the one the live-task table holds for the version.
C2_AtMostOneTaskPerVersion ==
  \A v \in Versions :
    /\ Cardinality(RunningFor(v)) <= 1
    /\ RunningFor(v) \subseteq {runningUnpackTasks[v]}

\* A task for v is running with a caller awaiting it while another call for v,
\* whose directory check found nothing, is still suspended.
C2_Witness ==
  \E v \in Versions : \E g, h \in Slots :
    /\ g # h
    /\ RunningFor(v) # {}
    /\ handlers[g].pc = "await" /\ handlers[g].version = v
    /\ handlers[h].pc = "ensure" /\ handlers[h].version = v /\ ~handlers[h].found

\* C3 as the specification states it: a call issued when the bundle directory
\* of V holds the partial output of a failed task (no task running) leaves
\* ensureUnpackedVersion awaiting an unpack task that redoes the work.
C3_CallAfterFailureStartsTask ==
  [][\A h \in Slots :
       (/\ handlers[h].pc = "ensure"
        /\ handlers[h].found
        /\ ~handlers[h].at.full
        /\ ~handlers[h].at.running
        /\ handlers'[h].pc # "ensure")
       => /\ handlers'[h].pc = "await"
          /\ handlers'[h].task \in {t \in TaskIds : tasks'[t].pc # "none"}]_vars

\* C4 as the specification states it: when the generator exits with a non-zero
\* code the unpack task rejects.
C4_NonZeroExitRejects ==
  settled.exit > 0 => settled.outcome = "rejected"

\* C5 as the specification states it: a handler resolves or reads a file of
\* the bundle of V only when the bundle is fully unpacked and no unpack task
\* for V is running.
C5_ReadsOnlyFullBundle ==
  \A h \in Slots :
    handlers[h].pc \in {"resolve", "model", "read"}
    => /\ disk[handlers[h].version] = FullBundle
       /\ RunningFor(handlers[h].version) = {}

\* C6: the bundle directory, once there, stays; a call made when it exists
\* finds it; and a call that found it returns without starting a task, with
\* the disk, the tasks and the live-task table unchanged.
C6_ExistingDirectoryNoWork ==
  [][/\ \A v \in Versions : "dir" \in disk[v] => "dir" \in disk'[v]
     /\ \A h \in Slots :
          (handlers[h].pc = "idle" /\ handlers'[h].pc = "ensure")
          => (handlers'[h].found <=> "dir" \in disk[handlers'[h].version])
     /\ \A h \in Slots :
          (handlers[h].pc = "ensure" /\ handlers[h].found /\ handlers'[h].pc # "ensure")
          => /\ handlers'[h].pc \in {"resolve", "read"}
             /\ UNCHANGED <<disk, tasks, runningUnpackTasks>>]_vars

\* A call made after a successful unpack has returned on the directory check
\* and its handler goes on to the bundle, no task running.
C6_Witness ==
  \E h \in Slots :
    /\ handlers[h].pc \in {"resolve", "read"}
    /\ handlers[h].at.full
    /\ \A t \in TaskIds : tasks[t].pc = "none"

\* C22: the live-task table holds an entry for a version exactly while an
\* unpack task for it is unsettled, the entry is that task, and a step that
\* settles a task, resolved or rejected, leaves no entry for its version.
C22_EntryExactlyWhileUnsettled ==
  /\ \A v \in Versions :
       /\ runningUnpackTasks[v] # 0 <=> RunningFor(v) # {}
       /\ runningUnpackTasks[v] # 0 => runningUnpackTasks[v] \in RunningFor(v)
  /\ settled.outcome # "none" => runningUnpackTasks[settled.version] = 0

\* A task has just been rejected and its entry is gone while the task of the
\* other version is still in the table.
C22_Witness ==
  /\ settled.outcome = "rejected"
  /\ runningUnpackTasks[settled.version] = 0
  /\ \E v \in Versions : runningUnpackTasks[v] # 0

\* The places of a task in the order unpackVersion passes them.
TaskOrder == <<"mkdir", "textures", "models", "font", "command", "process">>
PlaceOf(pc) == CHOOSE n \in 1..Len(TaskOrder) : TaskOrder[n] = pc

\* C23: a task goes through its steps in one order: the directories, the
\* textures, the models, the font, then the generator; when the generator is
\* started the directories and the three subtrees are on disk, and a task
\* resolves only from the exit of its generator.
C23_StepsInFixedOrder ==
  [][ \A t \in TaskIds :
        LET before == tasks[t].pc
            after == tasks'[t].pc IN
        (before # after /\ before # "none")
        => /\ before \in {TaskOrder[n] : n \in 1..Len(TaskOrder)}
           /\ after \in {TaskOrder[n] : n \in 1..Len(TaskOrder)}
              => PlaceOf(after) = PlaceOf(before) + 1
           /\ after = "process"
              => {"dir", "textures", "models", "font"} \subseteq disk'[tasks[t].version]
           /\ (after = "none" /\ settled'.outcome = "resolved") => before = "process"
    ]_vars

\* A task has resolved on the exit of its generator with the whole bundle on disk.
C23_Witness ==
  /\ settled.outcome = "resolved"
  /\ settled.exit = 0
  /\ FullBundle \subseteq disk[settled.version]

\* C21 as the specification states it: every unpack task that has been
\* started eventually settles, the runs in which the generator command cannot
\* be built or the process cannot be started included.
C21_EveryTaskSettles ==
  \A t \in TaskIds : (tasks[t] # NoTask) ~> (tasks[t] = NoTask)

-----------------------------------------------------------------------------
(* The message protocol. *)

\* C7: a message that fails validation is dropped.  A step in which the host
\* receives a value of none of the four client shapes posts nothing and leaves
\* the document, the live-task table, the tasks, the handlers and the disk as
\* they were; a step in which the rendering side receives a value of none of
\* the five server shapes posts nothing and leaves the edited item, the version
\* list, both caches and the component list as they were.
C7_InvalidMessageDropped ==
  [][/\ (hostIn' # NoInput /\ ~IsClientMessage(hostIn'))
        => /\ posted' = << >>
           /\ UNCHANGED <<docItem, docHash, runningUnpackTasks, tasks, disk, handlers>>
     /\ (viewIn' # NoInput /\ ~IsServerMessage(viewIn'))
        => /\ viewPosted' = << >>
           /\ UNCHANGED <<editedItem, minecraftVersions, itemTextures, resources,
                          itemComponents>>]_vars

\* The rendering side has just dropped a value while it holds an edited item
\* and the host holds a document item and a suspended handler.
C7_Witness ==
  /\ viewIn # NoInput
  /\ ~IsServerMessage(viewIn)
  /\ editedItem # Null
  /\ docItem # Null
  /\ \E h \in Slots : handlers[h].pc # "idle"

\* The response a request handler may post for an item: the item with the
\* content of its sprite or of the texture its block model names.
ItemResponses(it) ==
  LET name == StripIdNamespace(it.id) IN
  {ItemTextureMsg(it, FileContent(it.minecraftVersion, ItemSpritePath(name)))}
    \cup IF name \in JarBlockModelNames
           THEN {ItemTextureMsg(it, FileContent(it.minecraftVersion, ModelDerivedPath(name)))}
           ELSE {}

\* C8: a handler takes its item (or version and resource) from the request it
\* was started for and keeps them while it runs; the response it posts carries
\* these fields and the content of the file resolved for them; and every
\* item-texture or resource message is posted by such a handler.
C8_ResponseEchoesRequest ==
  [][/\ \A h \in Slots :
          (handlers[h].pc = "idle" /\ handlers'[h].pc = "ensure")
          => IF MessageType(hostIn') = "get-item-texture"
               THEN /\ handlers'[h].type = "get-item-texture"
                    /\ ItemJson(handlers'[h].item) = Get(hostIn', "item")
                    /\ handlers'[h].version = handlers'[h].item.minecraftVersion
               ELSE /\ MessageType(hostIn') = "get-resource"
                    /\ handlers'[h].type = "get-resource"
                    /\ JStr(handlers'[h].version) = Get(hostIn', "version")
                    /\ JStr(handlers'[h].resource) = Get(hostIn', "resource")
     /\ \A h \in Slots :
          (handlers[h].pc # "idle" /\ handlers'[h].pc # "idle")
          => /\ handlers'[h].type = handlers[h].type
             /\ handlers'[h].item = handlers[h].item
             /\ handlers'[h].version = handlers[h].version
             /\ handlers'[h].resource = handlers[h].resource
     /\ \A h \in Slots :
          (handlers[h].pc = "read" /\ handlers'[h].pc = "idle" /\ posted' # << >>)
          => IF handlers[h].type = "get-item-texture"
               THEN \E r \in ItemResponses(handlers[h].item) : posted' = << r >>
               ELSE posted' = << ResourceMsg(handlers[h].version, handlers[h].resource,
                                             FileContent(handlers[h].version,
                                                         handlers[h].resource)) >>
     /\ \A i \in 1..Len(posted') :
          MessageType(posted'[i]) \in {"item-texture", "resource"}
          => \E h \in Slots : handlers[h].pc = "read" /\ handlers'[h].pc = "idle"]_vars

\* The response for the barrier has just been posted while a handler for the
\* stone is about to read its file.
C8_Witness ==
  /\ posted \in {<< r >> : r \in ItemResponses(Item(V1, Barrier))}
  /\ \E h \in Slots : handlers[h].pc = "read" /\ handlers[h].item = Item(V1, Stone)

\* Whether registries.json of the version the document's item names is on disk.
ReportOnDisk(v) == v \in Versions /\ "reports" \in disk[v]

\* C9 as the specification states it: every ready message is answered with
\* update-item and update-versions at once, and its handler then posts
\* update-item-components.
C9_ReadyAnsweredWithThree ==
  [][/\ hostIn' = ReadyMsg
        => /\ posted' = << UpdateItemMsg(docItem), UpdateVersionsMsg(VersionList) >>
           /\ \E h \in Slots : handlers[h].pc = "idle" /\ handlers'[h].pc = "components"
     /\ \A h \in Slots :
          (handlers[h].type = "ready" /\ handlers'[h].pc = "idle")
          => posted' = << UpdateItemComponentsMsg(ComponentNames(handlers[h].version)) >>]_vars

\* C9, amended: every ready message is answered at once with update-item
\* carrying the document's item (or null) and then update-versions carrying
\* the version list; update-item-components follows from the same handler
\* exactly when the document's item is not null, names a version, and the
\* registries report of that version is on disk.
C9_ReadyAnswer ==
  [][/\ hostIn' = ReadyMsg
        => /\ posted' = << UpdateItemMsg(docItem), UpdateVersionsMsg(VersionList) >>
           /\ IF docItem # Null /\ docItem.minecraftVersion # << >>
                THEN \E h \in Slots :
                       /\ handlers[h].pc = "idle"
                       /\ handlers'[h].pc = "components"
                       /\ handlers'[h].type = "ready"
                       /\ handlers'[h].version = docItem.minecraftVersion
                ELSE UNCHANGED handlers
     /\ \A h \in Slots :
          (handlers[h].type = "ready" /\ handlers'[h].pc = "idle")
          => posted' = IF ReportOnDisk(handlers[h].version)
                         THEN << UpdateItemComponentsMsg(ComponentNames(handlers[h].version)) >>
                         ELSE << >>]_vars

\* A ready message has just been answered with the document's item and the
\* version list, and its handler is about to read a report that is on disk.
C9_Witness ==
  /\ hostIn = ReadyMsg
  /\ docItem # Null
  /\ posted = << UpdateItemMsg(docItem), UpdateVersionsMsg(VersionList) >>
  /\ \E h \in Slots :
       /\ handlers[h].pc = "components"
       /\ handlers[h].type = "ready"
       /\ ReportOnDisk(handlers[h].version)

\* C10: when getUnpackedItemResource has made its sprite check, the path is
\* the direct sprite path if the sprite file is on disk, whatever block model
\* there is; the block model is read, and a path derived from it, only if the
\* sprite file is absent.
C10_SpriteBeforeModel ==
  [][\A h \in Slots :
       LET name == StripIdNamespace(handlers[h].item.id)
           sprite == /\ name \in JarItemSprites
                     /\ "textures" \in disk[handlers[h].version] IN
       /\ (handlers[h].pc = "resolve" /\ handlers'[h].pc # "resolve")
          => IF sprite
               THEN /\ handlers'[h].pc = "read"
                    /\ handlers'[h].path = ItemSpritePath(name)
               ELSE handlers'[h].pc = "model"
       /\ (handlers[h].pc = "model" /\ handlers'[h].pc = "read")
          => handlers'[h].path = ModelDerivedPath(name)
       /\ (handlers[h].type = "get-item-texture" /\ handlers'[h].pc = "read")
          => handlers[h].pc \in {"resolve", "model", "read"}]_vars

\* The sprite path was returned for the barrier, which has a block model too.
C10_Witness ==
  \E h \in Slots :
    /\ handlers[h].pc = "read"
    /\ handlers[h].item = Item(V1, Barrier)
    /\ handlers[h].path = ItemSpritePath(<<"barrier">>)
    /\ FileExists(V1, BlockModelPath(<<"barrier">>))

-----------------------------------------------------------------------------
(* The resource resolver. *)

\* C11 as the specification states it: the block-model fallback resolves to
\* the block texture path of the side slot when the model declares one, and
\* otherwise to that of the first texture the model declares.
C11_SideElseFirstDeclared ==
  (ret # NoResult /\ arg # << >>)
  => ret = Returned(BlockTexturePath(stripMinecraftNamespace(
             IF \E i \in 1..Len(arg) : arg[i][1] = "side"
               THEN arg[CHOOSE i \in 1..Len(arg) : arg[i][1] = "side"][2]
               ELSE arg[1][2])))

\* C12 as the specification states it: when neither the sprite file nor the
\* block model of the id is on disk, getUnpackedItemResource fails with
\* ResourceNotFoundError.
C12_FailsWithResourceNotFound ==
  (/\ ret # NoResult
   /\ ~FileExists(arg.version, ItemSpritePath(StripIdNamespace(arg.id)))
   /\ ~FileExists(arg.version, BlockModelPath(StripIdNamespace(arg.id))))
  => ret = Thrown("ResourceNotFoundError")

-----------------------------------------------------------------------------
(* The document file. *)

\* C20: the document opened from a saved file holds an item equal in version,
\* id, count and components to the item that was saved, and an empty
\* components mapping is read back as an empty mapping.
C20_SaveOpenRoundTrip ==
  (ret # NoResult /\ arg # NoCall)
  => /\ ret.value.item = arg.saved
     /\ arg.saved # Null
        => /\ ret.value.item.minecraftVersion = arg.saved.minecraftVersion
           /\ ret.value.item.id = arg.saved.id
           /\ ret.value.item.count = arg.saved.count
           /\ ret.value.item.components = arg.saved.components
           /\ arg.saved.components = << >> => ret.value.item.components = << >>

\* The named sword, whose components hold quotes, a backslash and a newline,
\* was saved and opened.
C20_Witness ==
  /\ ret # NoResult
  /\ arg = [saved |-> NamedSword]
  /\ ret.value.item = NamedSword

-----------------------------------------------------------------------------
(* The caches of the rendering side. *)

\* C19: a valid item-texture or resource message that has just been received
\* is in its cache under version##id or version##resource of the fields it
\* carries, whatever the edited item is, and no step removes a key from
\* either cache.
C19_CachedUnderEchoedKey ==
  [][ /\ ObjKeys(itemTextures) \subseteq ObjKeys(itemTextures')
      /\ ObjKeys(resources) \subseteq ObjKeys(resources')
      /\ IsItemTextureResponseMessage(viewIn')
         => LET key == Get(Get(viewIn', "item"), "minecraftVersion").s \o <<"##">>
                         \o Get(Get(viewIn', "item"), "id").s IN
            /\ key \in ObjKeys(itemTextures')
            /\ CacheGet(itemTextures', key) = Get(viewIn', "texture").s
      /\ IsAnyResourceResponseMessage(viewIn')
         => LET key == Get(viewIn', "version").s \o <<"##">> \o Get(viewIn', "resource").s IN
            /\ key \in ObjKeys(resources')
            /\ CacheGet(resources', key) = Get(viewIn', "texture").s
    ]_vars

\* The stone's texture has just arrived while the apple is edited, and the
\* caches hold what arrived before, a resource of another version included.
C19_Witness ==
  /\ editedItem = Item(V1, Apple)
  /\ viewIn = ItemTextureMsg(Item(V1, Stone), FileContent(V1, BlockTexturePath(<<"stone">>)))
  /\ ObjKeys(itemTextures) = {hashItemTexture(Item(V1, Apple)), hashItemTexture(Item(V1, Stone))}
  /\ hashResource(V2, JarGlintTexture) \in ObjKeys(resources)

-----------------------------------------------------------------------------
(* The preview. *)

\* C13 as the specification states it: once no load is in flight, hasTexture
\* is 1 exactly when the current item is not null and its key is in the
\* texture cache, and the item sampler then holds the texture cached for the
\* current item.
C13_SpriteFollowsFinalInputs ==
  loads = << >>
  => /\ uniforms.hasTexture = 1 <=> ItemLoadStarts(_editedItem, _textures)
     /\ uniforms.hasTexture = 1
        => uItemSampler = Loaded(CacheGet(_textures, hashItemTexture(_editedItem)))

\* C14: isItemEnchanted is true when the glint override is the byte 1,
\* whatever the enchantments hold; true when there is no override and the
\* enchantments parse to a non-empty compound; false when neither component
\* is present; and with an override present the result is whether the
\* override is the byte 1, so the enchantments do not decide it.
C14_OverrideDecidesElseEnchantments ==
  ret # NoResult
  => LET item == arg.item
         override == tryParseSNBT(RemoveNewlines(Component(item, GLINT_OVERRIDE)))
         listed == tryParseSNBT(RemoveNewlines(Component(item, ENCHANTMENTS))) IN
     /\ HasComponent(item, GLINT_OVERRIDE)
        => ret = Returned(override = ByteTag(1))
     /\ (~HasComponent(item, GLINT_OVERRIDE) /\ HasComponent(item, ENCHANTMENTS)
           /\ listed.tag = "compound" /\ listed.size > 0)
        => ret = Returned(TRUE)
     /\ (~HasComponent(item, GLINT_OVERRIDE) /\ ~HasComponent(item, ENCHANTMENTS))
        => ret = Returned(FALSE)

\* An override of 0b next to a non-empty enchantments compound: not enchanted.
C14_Witness ==
  /\ ret = Returned(FALSE)
  /\ HasComponent(arg.item, GLINT_OVERRIDE)
  /\ Component(arg.item, GLINT_OVERRIDE) = <<"0", "b">>
  /\ HasComponent(arg.item, ENCHANTMENTS)
  /\ tryParseSNBT(Component(arg.item, ENCHANTMENTS)) = CompoundTag(1)

-----------------------------------------------------------------------------
(* The tooltip. *)

\* The runs of a line, whatever the order they are placed in.
RECURSIVE RunsOf(_)
RunsOf(parts) ==
  IF parts = << >> THEN << >>
  ELSE LET top == Head(parts) IN
       IF top.t = "array" THEN RunsOf(top.items) \o RunsOf(Tail(parts))
       ELSE IF top.t = "object"
         THEN << top.text >> \o RunsOf(top.extra) \o RunsOf(Tail(parts))
       ELSE << top.text >> \o RunsOf(Tail(parts))

\* The height of the tallest run of a line, 0 for a line without runs; the
\* sum of the widths of its runs.
TallestRun(line) ==
  LET runs == RunsOf(<< line >>) IN
  IF runs = << >> THEN 0
  ELSE TextHeight(runs[CHOOSE i \in 1..Len(runs) :
                         \A j \in 1..Len(runs) : TextHeight(runs[i]) >= TextHeight(runs[j])])

RECURSIVE SumOf(_, _)
SumOf(f, n) == IF n = 0 THEN 0 ELSE f[n] + SumOf(f, n - 1)

LineWidth(line) ==
  LET runs == RunsOf(<< line >>) IN
  SumOf([i \in 1..Len(runs) |-> TextWidth(runs[i])], Len(runs))

\* Where the runs of line k start among the children of the text container.
RunsBefore(lines, k) ==
  SumOf([i \in 1..Len(lines) |-> Len(RunsOf(<< lines[i] >>))], k - 1)

\* C15 as the specification states it: the runs of every line sit at the sum
\* of the tallest run heights of the lines above it, that is, the vertical
\* cursor advances per line by the height of the tallest run of the line.
C15_CursorAdvancesByTallestRun ==
  ret # NoResult
  => LET lines == arg.lines
         children == ret.value.textContainer.children IN
     \A k \in 1..Len(lines) :
       \A r \in 1..Len(RunsOf(<< lines[k] >>)) :
         children[RunsBefore(lines, k) + r].y
           = SumOf([i \in 1..Len(lines) |-> TallestRun(lines[i])], k - 1)

\* The widest line of the lines, 0 when there is none.
RECURSIVE WidestLine(_)
WidestLine(lines) ==
  IF lines = << >> THEN 0
  ELSE MathMax(LineWidth(Head(lines)), WidestLine(Tail(lines)))

\* C16 as the specification states it: the panel is as wide as the widest
\* line plus twice the outer and twice the inner padding, as high as the sum
\* of the line heights (a line being as high as its tallest run) plus twice
\* the outer and twice the inner padding, and the text layer is offset by the
\* outer plus the inner padding on both axes.
C16_PanelSize ==
  ret # NoResult
  => LET lines == arg.lines
         built == ret.value IN
     /\ built.rect.width
          = WidestLine(lines) + 2 * TOOLTIP_PADDING_OUT_X + 2 * TOOLTIP_PADDING_INNER_X
     /\ built.rect.height
          = SumOf([i \in 1..Len(lines) |-> TallestRun(lines[i])], Len(lines))
              + 2 * TOOLTIP_PADDING_OUT_Y + 2 * TOOLTIP_PADDING_INNER_Y
     /\ built.textContainer.x = TOOLTIP_PADDING_OUT_X + TOOLTIP_PADDING_INNER_X
     /\ built.textContainer.y = TOOLTIP_PADDING_OUT_Y + TOOLTIP_PADDING_INNER_Y

-----------------------------------------------------------------------------
(* The bitmap font. *)

\* The places of a manifest: provider p, row i, column j, counted from 0 as
\* the code counts them.
Places(data) ==
  { <<p, i, j>> \in (0..MaxProviders) \X (0..2) \X (0..15) :
      /\ p < Len(data.providers)
      /\ i < Len(data.providers[p + 1].chars)
      /\ j < Len(data.providers[p + 1].chars[i + 1]) }

CodeAt(data, place) ==
  CharCode(data.providers[place[1] + 1].chars[place[2] + 1][place[3] + 1])

\* C17: every character of row i, column j of a provider with row height h
\* (8 when not declared), the row having N characters and the page being W
\* wide, gets width = advance = floor(W/N), x = j*floor(W/N), y = i*h,
\* height = h and zero offsets, and its cell ends inside the page; every
\* entry of the table is the cell of one of the places of its character.
C17_CellGeometry ==
  (ret # NoResult /\ "value" \in DOMAIN ret)
  => LET chars == ret.value
         data == arg.data IN
     /\ DOMAIN chars = { CodeAt(data, place) : place \in Places(data) }
     /\ \A id \in DOMAIN chars :
          \E place \in Places(data) :
            LET provider == data.providers[place[1] + 1]
                i == place[2]
                j == place[3]
                N == Len(provider.chars[i + 1])
                W == arg.textures[MC2PAGE(provider.file) + 1].width
                h == IF provider.height = NoHeight THEN 8 ELSE provider.height.value IN
            /\ CodeAt(data, place) = id
            /\ chars[id].width = W \div N
            /\ chars[id].xAdvance = W \div N
            /\ chars[id].x = j * (W \div N)
            /\ chars[id].y = i * h
            /\ chars[id].height = h
            /\ chars[id].xOffset = 0 /\ chars[id].yOffset = 0
            /\ chars[id].x + chars[id].width <= W
            /\ (W = 128 /\ N = 16) => chars[id].width = 8
            /\ (W = 130 /\ N = 16) => chars[id].width = 8

\* A row of 16 characters on a page 130 wide: the last cell is 8 wide at 120.
C17_Witness ==
  /\ ret # NoResult /\ "value" \in DOMAIN ret
  /\ arg.textures[1].width = 130
  /\ 100 \in DOMAIN ret.value
  /\ ret.value[100].x = 120 /\ ret.value[100].width = 8 /\ ret.value[100].page = 0

\* a comes before b in manifest order: providers, then rows, then columns.
Before(a, b) ==
  \/ a[1] < b[1]
  \/ a[1] = b[1] /\ a[2] < b[2]
  \/ a[1] = b[1] /\ a[2] = b[2] /\ a[3] < b[3]

\* The last place of a character code in manifest order.
LastPlace(data, id) ==
  CHOOSE place \in Places(data) :
    /\ CodeAt(data, place) = id
    /\ \A other \in Places(data) : CodeAt(data, other) = id => ~Before(place, other)

\* C18: a character code that occurs more than once holds the entry of its
\* last occurrence in manifest order: that provider's page and row height,
\* that row's line and cell width, that column's offset.
C18_LastOccurrenceWins ==
  (ret # NoResult /\ "value" \in DOMAIN ret)
  => LET chars == ret.value
         data == arg.data IN
     \A id \in DOMAIN chars :
       LET last == LastPlace(data, id)
           provider == data.providers[last[1] + 1]
           width == arg.textures[MC2PAGE(provider.file) + 1].width
                      \div Len(provider.chars[last[2] + 1]) IN
       /\ chars[id].page = MC2PAGE(provider.file)
       /\ chars[id].x = last[3] * width
       /\ chars[id].y = last[2] * RowHeight(provider)
       /\ chars[id].width = width
       /\ chars[id].height = RowHeight(provider)

\* "a" at row 0, column 0 of a provider and again at row 1, column 1 of the
\* next: the table holds the second.
C18_Witness ==
  /\ ret # NoResult /\ "value" \in DOMAIN ret
  /\ Len(arg.data.providers) = 2
  /\ arg.data.providers[1].chars = << <<"a", "b">>, <<"c", "a", "d">> >>
  /\ arg.data.providers[2].chars = << <<"a", "c">>, <<"b">> >>
  /\ ret.value[97].page = 2
  /\ ret.value[97].x = 0 /\ ret.value[97].y = 0 /\ ret.value[97].height = 0
  /\ ret.value[99].page = 2 /\ ret.value[100].page = 0

-----------------------------------------------------------------------------
(* The preview and the resolutions that fail. *)

\* C24 as the specification states it, on the preview: a sprite whose
\* resolution failed has no entry in the texture cache, and while the current
\* item is such an item the preview keeps hasTexture = 0.
C24_FailedSpriteKeepsNoTexture ==
  (_editedItem # Null /\ ~CacheHas(_textures, hashItemTexture(_editedItem)))
    => uniforms.hasTexture = 0

-----------------------------------------------------------------------------
(* The requests of the rendering side. *)

Requested(m) == \E i \in 1..Len(viewPosted') : viewPosted'[i] = m

\* C25 as the specification states it: a step that changes the edited item
\* to a non-null value posts get-item-texture for it, and a step that changes
\* its version posts get-resource for the glint overlay, the three font page
\* images and the font manifest of the new version.
C25_RequestsSpriteAndResources ==
  [][(editedItem' # editedItem /\ editedItem' # Null)
       => /\ Requested(GetItemTextureMsg(editedItem'))
          /\ VersionOf(editedItem') # VersionOf(editedItem)
             => \A resource \in {GLINT_TEXTURE_PATH, ASCII_FONT_PATH, ACCENTED_FONT_PATH,
                                  NONLATIN_EUROPEAN_FONT_PATH, FONT_DATA_JSON} :
                  Requested(GetResourceMsg(editedItem'.minecraftVersion, resource))]_vars

-----------------------------------------------------------------------------
(* The fonts and the tooltip. *)

\* A step in which tryBuildLore runs: onEditedItem, or the end of tryLoadFonts.
RunsTryBuildLore ==
  \/ \E item \in LoreItems : OnEditedItem(item)
  \/ \E i \in 1..MaxLoads :
       /\ i <= Len(loads)
       /\ loads[i].fn = "fonts"
       /\ loads[i].page = Len(FontPages)
       /\ CacheHas(_resources, hashResource(loads[i].version, FONT_DATA_JSON))
       /\ LoadDone(i)

\* The fonts the cache holds for version v, as tryLoadFonts would set them.
FontsOf(cache, v) ==
  [ascii |-> Loaded(CacheGet(cache, hashResource(v, ASCII_FONT_PATH))),
   accented |-> Loaded(CacheGet(cache, hashResource(v, ACCENTED_FONT_PATH))),
   nonlatin_european |-> Loaded(CacheGet(cache, hashResource(v, NONLATIN_EUROPEAN_FONT_PATH))),
   data |-> ManifestOf(CacheGet(cache, hashResource(v, FONT_DATA_JSON)))]

\* C26 as the specification states it: when tryBuildLore builds a tooltip
\* from the ready fonts, the resource cache holds the three font pages and the
\* font manifest of the current item's version, and the ready fonts are the
\* ones loaded from those entries.
C26_FontsOfCurrentVersion ==
  [][(RunsTryBuildLore /\ _editedItem' # Null /\ _fonts' # Null)
       => /\ FontsLoadStarts(_editedItem', _resources')
          /\ _fonts' = FontsOf(_resources', _editedItem'.minecraftVersion)]_vars

-----------------------------------------------------------------------------
(* The glint. *)

\* C27 as the specification states it: once no load is in flight,
\* isEnchanted is 1 only if the current item is not null, is enchanted, and
\* the glint texture of its version is in the resource cache.
C27_GlintFollowsFinalInputs ==
  (loads = << >> /\ uniforms.isEnchanted = 1)
    => /\ _editedItem # Null
       /\ isItemEnchanted(_editedItem)
       /\ CacheHas(_resources, hashResource(_editedItem.minecraftVersion, GLINT_TEXTURE_PATH))

-----------------------------------------------------------------------------
(* The tooltip on the stage. *)

\* C28: at most one tooltip is attached to the stage, it is the one
\* builtTooltip refers to, and a rebuild that finds no item or no ready fonts
\* leaves none attached.
C28_AtMostOneTooltip ==
  /\ [](/\ stage <= 1
        /\ stage = 1 <=> (builtTooltip # Null /\ builtTooltip.attached))
  /\ [][(RunsTryBuildLore /\ (_editedItem' = Null \/ _fonts' = Null)) => stage' = 0]_vars

\* A tooltip was built and attached, and the rebuild of an item change that
\* found no item has destroyed it.
C28_Witness ==
  /\ _fonts # Null
  /\ _editedItem = Null
  /\ builtTooltip # Null
  /\ builtTooltip.destroyed
  /\ stage = 0
  /\ ~destroyed

-----------------------------------------------------------------------------
(* The disposed preview context. *)

\* C29 as the specification states it: after dispose the completion of a
\* load changes no uniform and no sampler, does not set the fonts and
\* attaches nothing to the stage.
C29_CompletionsDroppedAfterDispose ==
  [][destroyed => UNCHANGED <<uniforms, uItemSampler, uGlintSampler, _fonts, stage>>]_vars

-----------------------------------------------------------------------------
(* Components that do not parse. *)

\* The component isItemEnchanted decides on does not parse.
Unparsable(item) ==
  LET key == IF HasComponent(item, GLINT_OVERRIDE) THEN GLINT_OVERRIDE ELSE ENCHANTMENTS IN
  /\ HasComponent(item, key)
  /\ "error" \in DOMAIN parseSNBT(RemoveNewlines(Component(item, key)))

\* C30: isItemEnchanted yields a boolean for every item, false for one whose
\* deciding component does not parse; the sprite load that ends with such an
\* item binds its texture and starts no glint load, and tryLoadGlintTexture
\* called with such an item clears the glint and starts no load.
C30_UnparsableIsNotEnchanted ==
  /\ [](_editedItem # Null
          => /\ isItemEnchanted(_editedItem) \in BOOLEAN
             /\ Unparsable(_editedItem) => ~isItemEnchanted(_editedItem))
  /\ [][(_editedItem # Null /\ Unparsable(_editedItem))
          => /\ \A i \in 1..Len(loads) :
                  (loads[i].fn = "item" /\ LoadDone(i))
                    => /\ uniforms' = [uniforms EXCEPT !.hasTexture = 1]
                       /\ uItemSampler' = Loaded(loads[i].data)
                       /\ loads' = Without(loads, i)
             /\ (\E cache \in {<< >>, <<GlintResource>>} : OnResources(cache))
                  => /\ uniforms'.isEnchanted = 0
                     /\ uGlintSampler' = EMPTY
                     /\ loads' = loads]_vars

\* The sprite of an item whose glint override does not parse has been loaded
\* and bound, next to enchantments that do parse.
C30_Witness ==
  /\ _editedItem # Null
  /\ HasComponent(_editedItem, GLINT_OVERRIDE)
  /\ Unparsable(_editedItem)
  /\ HasComponent(_editedItem, ENCHANTMENTS)
  /\ tryParseSNBT(Component(_editedItem, ENCHANTMENTS)) = CompoundTag(1)
  /\ CacheHas(_resources, hashResource(_editedItem.minecraftVersion, GLINT_TEXTURE_PATH))
  /\ uniforms = [hasTexture |-> 1, isEnchanted |-> 0]
  /\ loads = << >>

-----------------------------------------------------------------------------
(* The traversal of a tooltip line. *)

\* The nodes below a node, left to right.
ChildNodes(node) ==
  IF node.t = "array" THEN node.items
  ELSE IF node.t = "object" THEN node.extra
  ELSE << >>

RECURSIVE NextLevel(_)
NextLevel(level) ==
  IF level = << >> THEN << >>
  ELSE ChildNodes(Head(level)) \o NextLevel(Tail(level))

\* The string and record nodes of a level, left to right.
RECURSIVE RunNodes(_)
RunNodes(level) ==
  IF level = << >> THEN << >>
  ELSE (IF Head(level).t = "array" THEN << >> ELSE << Head(level) >>) \o RunNodes(Tail(level))

\* The string and record nodes of a tree level by level, each level left to
\* right.
RECURSIVE LevelOrder(_)
LevelOrder(level) ==
  IF level = << >> THEN << >>
  ELSE RunNodes(level) \o LevelOrder(NextLevel(level))

\* C31: the runs of every line are the string and record nodes of the line in
\* breadth-first, left-to-right order, one run per node and none for a list;
\* the first run of a line is at x = 0 and every other run at the sum of the
\* widths of the runs before it on the line.
C31_RunsInBreadthFirstOrder ==
  ret # NoResult
  => LET lines == arg.lines
         children == ret.value.textContainer.children IN
     /\ Len(children) = RunsBefore(lines, Len(lines) + 1)
     /\ \A k \in 1..Len(lines) :
          LET nodes == LevelOrder(<< lines[k] >>) IN
          /\ Len(nodes) = Len(RunsOf(<< lines[k] >>))
          /\ \A r \in 1..Len(nodes) :
               LET run == children[RunsBefore(lines, k) + r] IN
               /\ run.text = nodes[r].text
               /\ run.x = SumOf([i \in 1..Len(nodes) |-> TextWidth(nodes[i].text)], r - 1)

\* A record with a record child that has a child of its own, followed by a
\* second child, has been laid out behind another line: the grandchild is the
\* last run of the line.
C31_Witness ==
  /\ ret # NoResult
  /\ Len(arg.lines) = 2
  /\ arg.lines[1] = MArray(<< MString(TallText), MString(A) >>)
  /\ arg.lines[2] =
       MObject(<<"a", "b">>,
               << MObject(A, << MString(<<"a", "\n", "b", "\n", "c">>) >>), MString(A) >>)
  /\ Len(ret.value.textContainer.children) = 6
  /\ ret.value.textContainer.children[6].text = <<"a", "\n", "b", "\n", "c">>
  /\ ret.value.textContainer.children[6].x = 4 * FONT_SIZE

-----------------------------------------------------------------------------
(* The colours of a tooltip line. *)

\* The colour a text is drawn in: its fill, converted when it is a string.
Rendered(fill) ==
  IF "string" \in DOMAIN fill THEN NewPIXIColor(fill.string) ELSE fill

\* The string and record nodes of a tree level by level, each with the
\* colour it resolves to: its own when it sets one, else the colour its
\* parent resolved to.
OwnColour(node, inherited) ==
  IF node.t = "object" /\ Truthy(node.color) THEN Rendered(node.color) ELSE inherited

RECURSIVE NextColouredLevel(_)
NextColouredLevel(level) ==
  IF level = << >> THEN << >>
  ELSE LET node == Head(level)[1]
           own == OwnColour(node, Head(level)[2])
           below == ChildNodes(node) IN
       [i \in 1..Len(below) |-> <<below[i], own>>] \o NextColouredLevel(Tail(level))

RECURSIVE ResolvedColours(_)
ResolvedColours(level) ==
  IF level = << >> THEN << >>
  ELSE LET runs == SelectSeq(level, LAMBDA part : part[1].t # "array") IN
       [i \in 1..Len(runs) |-> OwnColour(runs[i][1], runs[i][2])]
         \o ResolvedColours(NextColouredLevel(level))

\* C32 as the specification states it: every run is drawn in the colour of
\* the nearest node, itself or an ancestor, that sets a colour, in white when
\* there is none; so the children of a record inherit the colour the record is
\* drawn in.
C32_ColourOfNearestAncestor ==
  (ret # NoResult /\ "value" \in DOMAIN ret)
  => LET lines == arg.lines
         children == ret.value.textContainer.children IN
     \A k \in 1..Len(lines) :
       LET colours == ResolvedColours(<< <<lines[k], TOOLTIP_DEFAULT_TEXT_COLOR>> >>) IN
       \A r \in 1..Len(colours) :
         Rendered(children[RunsBefore(lines, k) + r].fill) = colours[r]

-----------------------------------------------------------------------------
(* Providers of unknown files. *)

\* C33 as the specification states it: generate completes whatever the files
\* of the providers are, and a character whose last occurrence is in a
\* provider of a file that is none of the three pages has an entry whose page
\* is none of the three.
C33_UnknownFileYieldsPagelessGlyphs ==
  ret # NoResult
  => /\ "value" \in DOMAIN ret
     /\ \A place \in Places(arg.data) :
          LET id == CodeAt(arg.data, place) IN
          (/\ place = LastPlace(arg.data, id)
           /\ arg.data.providers[place[1] + 1].file \notin PagedFiles)
            => /\ id \in DOMAIN ret.value
               /\ ret.value[id].page \notin {0, 1, 2}


-----------------------------------------------------------------------------
(* The document and the echo of the rendering side. *)

\* The host handled an update-item message with an item in the last step.
WroteItem == IsClientMessage(hostIn) /\ MessageType(hostIn) = "update-item"
               /\ Get(hostIn, "item").t # "null"

\* What write did with the item of the message handled in this step: it fired
\* the change event exactly when no item was stored or the stored item's hash
\* differs from the new item's, it then stored the item with its hash, and
\* left item and hash alone otherwise.
WriteStep ==
  WroteItem' =>
    LET it == ParseItem(Get(hostIn', "item"))
        differs == docItem = Null \/ hashItem(docItem) # hashItem(it) IN
    /\ didChange' = differs
    /\ differs => docItem' = it /\ docHash' = hashItem(it)
    /\ ~differs => UNCHANGED <<docItem, docHash>>

\* C34: write(item) stores the item and fires the change event exactly when
\* its hash differs from the hash of the stored item, and does nothing for an
\* equal item; so the change event only ever fires for an item the user
\* picked, never for the opened item that the rendering side sends back
\* after ready.
C34_WriteFiresOnNewHashOnly ==
  /\ [](didChange => docItem # Null /\ docItem.id \in EditIds)
  /\ [][WriteStep]_vars

\* The rendering side has sent back the opened item and the host has written
\* it: no change event.
C34_Witness ==
  /\ WroteItem
  /\ ~didChange
  /\ docItem = Item(V1, Apple)
  /\ ParseItem(Get(hostIn, "item")) = Item(V1, Apple)

-----------------------------------------------------------------------------
(* The preview context and the state of App. *)

\* C35: once initItemPreview has resolved, the preview context holds the
\* edited item, the textures and the resources of App, also those that
\* reached App before.
C35_ContextHoldsAppState ==
  mounted => /\ _editedItem = editedItem
             /\ _textures = itemTextures
             /\ _resources = resources

-----------------------------------------------------------------------------
(* The files the host reads for get-resource. *)

\* The handler in slot h answers a get-resource request in this step.
AnswersResource(h) ==
  /\ handlers[h].type = "get-resource"
  /\ ReadFile(h)
  /\ posted' # << >>

\* C36: a get-resource request that the host answers is for an installed
\* version, and the file read for it lies inside the bundle directory of that
\* version, whatever the resource string.
C36_ReadsInsideBundle ==
  [][\A h \in Slots : AnswersResource(h) =>
       /\ handlers[h].version \in InstalledVersions
       /\ InsideBundle(handlers[h].path)]_vars

\* The same for the version alone.
AnswersInstalledVersionsOnly ==
  [][\A h \in Slots : AnswersResource(h) => handlers[h].version \in InstalledVersions]_vars

-----------------------------------------------------------------------------
(* The exchange started by ready. *)

Types(msgs) == {MessageType(msgs[i]) : i \in 1..Len(msgs)}

\* Who answers what: the rendering side posts only when it is handed
\* update-item and never posts ready again; the host posts update-item only
\* when it is handed ready.
AnswersOnly ==
  /\ viewPosted' # << >> => MessageType(viewIn') = "update-item"
  /\ "ready" \notin Types(viewPosted')
  /\ "update-item" \in Types(posted') => MessageType(hostIn') = "ready"

\* The steps a suspended handler has before it, the message it may post
\* and the step that hands that message over included.
HandlerWork(hd) ==
  CASE hd.pc = "idle" -> 0
    [] hd.pc = "read" -> 2
    [] hd.pc = "components" -> 2
    [] hd.pc = "model" -> 3
    [] hd.pc = "resolve" -> 4
    [] OTHER -> 5

\* The steps a message to the host has before it: it is handed over, its
\* handler runs, and what the handler posts is handed over.
RequestWork(m) ==
  IF ~IsClientMessage(m) THEN 1
  ELSE CASE MessageType(m) = "update-item" -> 3
         [] MessageType(m) = "get-item-texture" -> 6
         [] MessageType(m) = "get-resource" -> 6
         [] OTHER -> 38

\* The steps a message to the rendering side has before it: an item makes
\* it post update-item, get-item-texture and four get-resource.
AnswerWork(m) ==
  IF IsServerMessage(m) /\ MessageType(m) = "update-item" /\ Get(m, "item").t # "null"
    THEN 34 ELSE 1

RECURSIVE Sum(_, _)
Sum(Work(_), msgs) == IF msgs = << >> THEN 0 ELSE Work(Head(msgs)) + Sum(Work, Tail(msgs))

RECURSIVE SumOver(_)
SumOver(slots) ==
  IF slots = {} THEN 0
  ELSE LET h == CHOOSE x \in slots : TRUE IN
    HandlerWork(handlers[h]) + SumOver(slots \ {h})

\* The work under way.
Work == Sum(RequestWork, channel.toHost) + Sum(AnswerWork, channel.toView) + SumOver(Slots)

\* C37: without edits the exchange started by ready comes to rest: every
\* step of either side leaves less work under way than there was (so after
\* at most 38 steps no message is under way, no handler suspended and
\* nothing is sent any more), and no answer of one side makes the other
\* send the message that caused it.
C37_ExchangeComesToRest ==
  /\ [](Work = 0 <=> Quiet)
  /\ [][Work' < Work /\ AnswersOnly]_vars

\* The exchange for an opened apple has come to rest: the rendering side has
\* the item, its texture and the resources it asked for.
C37_Witness ==
  /\ Quiet
  /\ editedItem = Item(V1, Apple)
  /\ itemTextures # << >>
  /\ Len(resources) >= 2
  /\ itemComponents # << >>

-----------------------------------------------------------------------------
(* The language server that is recorded and the one installed. *)

\* loadLanguageServer has completed.
LoadCompleted == ret # NoResult /\ "client" \in DOMAIN ret

\* The latest release differs from the installed server and has no zip.
NoZipUpgrade ==
  /\ getLatestLanguageServer(arg.releases) # Null
  /\ arg.installed.info # Null
  /\ getLatestLanguageServer(arg.releases).tag_name # arg.installed.info.currentTag
  /\ ~getLatestLanguageServer(arg.releases).zip

\* C38: after loadLanguageServer has completed, the tag the info file
\* records has its install directory; when the latest release has no zip
\* asset, the installed server is still there, still recorded and the one
\* the client is made for.
C38_RecordedTagIsInstalled ==
  LoadCompleted =>
    /\ ret.info # Null => ret.info.currentTag \in ret.dirs
    /\ NoZipUpgrade => /\ ret.info = arg.installed.info
                       /\ ret.dirs = arg.installed.dirs
                       /\ ret.client = arg.installed.info

=============================================================================
